---- MODULE Spec2Model ----
(***************************************************************************)
(* A model of the VibeWorker agent execution engine.                       *)
(*                                                                         *)
(* The module holds these sub-systems, each with its own specification:    *)
(*   SpecRun    the state graph, the event stream adapter, the Runner and  *)
(*              the plan-approval endpoint (backend/engine, backend/app)   *)
(*   SpecGate   the tool-approval gate and the tool wrapper                *)
(*              (backend/security/gate.py, tool_wrapper.py)                *)
(*   SpecMem    the long-term memory store and its compression             *)
(*              (backend/memory/manager.py, backend/memory/compressor.py)  *)
(*   SpecCache  the two-tier cache behind the typed facades                *)
(*              (backend/cache)                                            *)
(*   SpecMw     the middleware chain of run_agent (engine/runner.py)       *)
(*   SpecReflect the end-of-session reflection (memory/session_reflector)  *)
(*   SpecConsol the consolidation of a new memory (memory/consolidator.py) *)
(*   SpecBak    memory.json and its backup file (memory/manager.py)        *)
(*   SpecIndex  the vector index of the memory search (memory/search.py)   *)
(*   SpecLlm    the LLM reply cache (cache/llm_cache.py)                   *)
(*   SpecPrompt the system prompt and its cache (prompt_builder.py,        *)
(*              cache/prompt_cache.py)                                     *)
(*   SpecAgent  the agent node's LLM and tool loop (engine/nodes/agent.py) *)
(*   SpecArch   the archiving of daily logs (memory/archiver.py)           *)
(*   SpecRate   the rate limiter of the gate (security/rate_limiter.py)    *)
(*   SpecPerm   the permission decision (security/gate.py, config.py)      *)
(*   SpecDedup  the duplicate check of add_entry (memory/manager.py)       *)
(*   SpecExec   the executor node's events in the stream                   *)
(*              (engine/nodes/executor.py, engine/stream_adapter.py)       *)
(*   SpecLoop   the executor loop of one plan (engine/graph_builder.py,    *)
(*              engine/nodes/executor.py, engine/nodes/replanner.py)       *)
(*   SpecFetch  fetch_url behind the URL cache (tools/fetch_url_tool.py)   *)
(*   SpecDisk   the disk tier under filesystem errors (cache/disk_cache.py)*)
(*   SpecSse    the gate's SSE callback over streams (security/gate.py)    *)
(*   SpecReplay the replay of a cached reply (engine/runner.py)            *)
(*   SpecCalls  the tool calls of one LLM reply (engine/nodes/agent.py)    *)
(*   SpecRepl   python_repl across sessions (tools/python_repl_tool.py)    *)
(*   SpecStream compression per category (memory/compressor.py)            *)
(* A specification leaves the variables of the other sub-systems at their  *)
(* initial values.                                                         *)
(***************************************************************************)
EXTENDS Integers, Sequences, FiniteSets, TLC

VARIABLES
  \* ---- graph configuration (graph_config.yaml), fixed for the process
  cfg,
  \* ---- AgentState of the one thread_id, as kept by the checkpointer
  messages, agent_outcome, plan_data, current_step_index, past_steps,
  replan_action, pending_events,
  \* ---- graph runtime: the node to run next, suspension, pending resume value
  next_node, suspended, resume_value,
  \* ---- stream_graph_events: pending_events consumption counter
  seen_event_count,
  \* ---- Runner / pump_agent_events / _stream_agent_response
  pc, runNo, out, pump_cancelled,
  \* ---- app._plan_approval_contexts and each run's ctx.approval_queue
  plan_ctx, approval_queue,
  \* ---- history kept for the properties
  plansMade, revisions, posts, pendingAtRunStart,
  interruptRun, resumeCount, decisionOf, enteredFor, registeredBy,
  everCancelled

runVars == << cfg, messages, agent_outcome, plan_data, current_step_index,
              past_steps, replan_action, pending_events, next_node, suspended,
              resume_value, seen_event_count, pc, runNo, out, pump_cancelled,
              plan_ctx, approval_queue, plansMade, revisions, posts,
              pendingAtRunStart, interruptRun, resumeCount, decisionOf,
              enteredFor, registeredBy, everCancelled >>

VARIABLES
  \* ---- SecurityGate: _pending, each check_permission caller, its result,
  \* ---- and the calls of resolve_approval with what they returned
  gate_pending, gate_approval, gate_caller, gate_result, resolve_log

gateVars == << gate_pending, gate_approval, gate_caller, gate_result,
               resolve_log >>

VARIABLES
  \* ---- memory.json, MemoryManager._lock, the threads working on the file
  mem_file, mem_lock, mem_pc, mem_op, mem_local,
  \* ---- the file as the completed writes, taken in order, leave it
  mem_expected, mem_next_id

memVars == << mem_file, mem_lock, mem_pc, mem_op, mem_local, mem_expected,
              mem_next_id >>

VARIABLES
  \* ---- URLCache: time.time(), the L1 OrderedDict, the L2 files
  clock, l1, l2,
  \* ---- the latest cache_url of each url and the latest get_cached_url
  last_set, last_get, next_value

cacheVars == << clock, l1, l2, last_set, last_get, next_value >>

VARIABLES
  \* ---- secured_invoke of the tool wrapper, one invocation per request:
  \* ---- where it is, what it returned, whether the wrapped tool ran
  tool_pc, tool_result, tool_executed,
  \* ---- the POSTs to /api/approve with the response each got
  approve_log

toolVars == << tool_pc, tool_result, tool_executed, approve_log >>

VARIABLES
  \* ---- run_agent: where it is, the on_run_start calls made, the events piped,
  \* ---- how the stream ended, the on_run_end calls made, what reached the caller
  mw_pc, mw_started, mw_piped, mw_outcome, mw_ended, mw_raised

mwVars == << mw_pc, mw_started, mw_piped, mw_outcome, mw_ended, mw_raised >>

VARIABLES
  \* ---- _do_session_reflect: where the task is, what reflect_on_session returned,
  \* ---- the calls it made on the memory manager
  rf_pc, rf_results, rf_calls

reflectVars == << rf_pc, rf_results, rf_calls >>

VARIABLES
  \* ---- consolidate_memory: where it is, the entries of the store, the entries
  \* ---- when it was called, the candidate, the decision of decide_consolidation
  cs_pc, cs_store, cs_before, cs_candidate, cs_decision, cs_calls, cs_reply

consolVars == << cs_pc, cs_store, cs_before, cs_candidate, cs_decision, cs_calls,
                cs_reply >>

VARIABLES
  \* ---- memory.json and memory.json.bak on disk, what the last _load_memory_json
  \* ---- returned, the content the file held before it was corrupted, what happened
  \* ---- since, the writes made
  bk_file, bk_bak, bk_loaded, bk_before, bk_since, bk_writes

bakVars == << bk_file, bk_bak, bk_loaded, bk_before, bk_since, bk_writes >>

VARIABLES
  \* ---- memory/search.py: the version of memory.json, _memory_index,
  \* ---- _memory_query_engine, _index_dirty, the persisted index, the newest
  \* ---- mutation that has returned, the builds made; each search_memories call
  \* ---- and each mutation of the store
  ix_file, ix_index, ix_engine, ix_dirty, ix_persist, ix_done, ix_builds,
  s_pc, s_engine, s_after, s_answer, m_pc, m_version

indexVars == << ix_file, ix_index, ix_engine, ix_dirty, ix_persist, ix_done,
                ix_builds, s_pc, s_engine, s_after, s_answer, m_pc, m_version >>

VARIABLES
  \* ---- LLMCache: the lists stored by key, the mtime of memory.json, the call of
  \* ---- get_or_generate in progress, the events it collected, what its consumer
  \* ---- received, the runs that completed, the calls made
  lc_store, lc_fp, lc_pc, lc_call, lc_collected, lc_yielded, lc_completed, lc_calls

llmVars == << lc_store, lc_fp, lc_pc, lc_call, lc_collected, lc_yielded, lc_completed, lc_calls >>

VARIABLES
  \* ---- The system prompt: the mtime of the files it is built from, the
  \* ---- PromptCache entries by key, the files changed since the last build, the
  \* ---- last build, the builds made
  pr_mtime, pr_cache, pr_changed, pr_last, pr_builds

promptVars == << pr_mtime, pr_cache, pr_changed, pr_last, pr_builds >>

VARIABLES
  \* ---- agent_node: its position, its iteration count, the messages it added,
  \* ---- its outcome, the failure of its last LLM call
  an_pc, an_iterations, an_new, an_outcome, an_failed

agentVars == << an_pc, an_iterations, an_new, an_outcome, an_failed >>

VARIABLES
  \* ---- The daily logs: each file's state, and the files cleanup_old_logs
  \* ---- reported an error for
  ar_log, ar_errors

archVars == << ar_log, ar_errors >>

VARIABLES
  \* ---- ToolRateLimiter._calls by limit key, time.time(), and the permission
  \* ---- checks made so far with their results
  rl_calls, rl_now, rl_log

rateVars == << rl_calls, rl_now, rl_log >>

VARIABLES
  \* ---- SecurityGate: its security level, its audit switch, the last call of
  \* ---- check_permission, the audit log, the approval requests created
  pm_level, pm_audit_enabled, pm_last, pm_audit, pm_requests

permVars == << pm_level, pm_audit_enabled, pm_last, pm_audit, pm_requests >>

VARIABLES
  \* ---- add_entry with its duplicate detection: the entries of the file,
  \* ---- the next fresh id, the calls made with what they returned
  dd_memories, dd_next_id, dd_log

dedupVars == << dd_memories, dd_next_id, dd_log >>

VARIABLES
  \* ---- executor_node under stream_graph_events: its position, the step index,
  \* ---- the iterations of its loop, the step status, the pending_events of the
  \* ---- thread, the adapter's counter, the output stream
  ex_pc, ex_index, ex_iterations, ex_status, ex_pending, ex_seen, ex_out

execVars == << ex_pc, ex_index, ex_iterations, ex_status, ex_pending, ex_seen, ex_out >>

VARIABLES
  \* ---- the executor loop of one plan (graph_builder.py, nodes/executor.py,
  \* ---- nodes/replanner.py): the wiring, the plan, the step index, the results,
  \* ---- the node to run next, the executor invocations and the revisions
  lp_cfg, lp_plan, lp_index, lp_past, lp_node, lp_invocations, lp_revisions

loopVars == << lp_cfg, lp_plan, lp_index, lp_past, lp_node, lp_invocations, lp_revisions >>

VARIABLES
  \* ---- fetch_url behind the tool wrapper (tools/fetch_url_tool.py,
  \* ---- security/tool_wrapper.py, engine/events.py): the security level, the
  \* ---- two tiers of the url cache, the clock, the next page body, the tool events
  fu_level, fu_l1, fu_l2, fu_clock, fu_next, fu_log

fetchVars == << fu_level, fu_l1, fu_l2, fu_clock, fu_next, fu_log >>

VARIABLES
  \* ---- the disk tier of a cache (cache/disk_cache.py) under I/O faults, and
  \* ---- get_or_generate over it (cache/llm_cache.py): the file of each key and
  \* ---- the outcome of each call
  dk_files, dk_log

diskVars == << dk_files, dk_log >>

VARIABLES
  \* ---- the gate's SSE callback across concurrent requests (security/gate.py,
  \* ---- app.py _stream_agent_response): the callback's owner, the streaming
  \* ---- runs, each run's output queue, the approval requests raised
  sc_callback, sc_active, sc_streams, sc_requests

sseVars == << sc_callback, sc_active, sc_streams, sc_requests >>

VARIABLES
  \* ---- runs with a plan approval behind the LLM reply cache (engine/runner.py,
  \* ---- cache/llm_cache.py, app.py approve_plan): the cached event lists, the
  \* ---- run's position, message, output and collected events, the plan_id map,
  \* ---- the waiting run, its queue, the posts, and counters
  rp_store, rp_pc, rp_msg, rp_out, rp_collected, rp_ctx, rp_waiting, rp_queue, rp_answered, rp_posts, rp_runs, rp_plans

replayVars == << rp_store, rp_pc, rp_msg, rp_out, rp_collected, rp_ctx, rp_waiting, rp_queue, rp_answered, rp_posts, rp_runs, rp_plans >>

VARIABLES
  \* ---- the tool calls of one agent_node invocation (engine/nodes/agent.py): the
  \* ---- loop's position and iteration count, the new messages, the tool calls
  \* ---- of the current reply still to run, the outcome
  tc_pc, tc_iterations, tc_msgs, tc_todo, tc_outcome

callsVars == << tc_pc, tc_iterations, tc_msgs, tc_todo, tc_outcome >>

VARIABLES
  \* ---- python_repl executions of the sessions in the one server process
  \* ---- (tools/python_repl_tool.py): the process's working directory and
  \* ---- sys.stdout, each session's execution, what each ran with, a counter
  py_cwd, py_stdout, py_exec, py_log, py_count

replVars == << py_cwd, py_stdout, py_exec, py_log, py_count >>

VARIABLES
  \* ---- compress_memories_stream over entries with categories
  \* ---- (memory/compressor.py): memory.json, the position of the compression,
  \* ---- what it loaded, new_memories, clusters_to_merge, the next id, its result
  cmp_file, cmp_pc, cmp_loaded, cmp_new, cmp_todo, cmp_next_id, cmp_result

streamVars == << cmp_file, cmp_pc, cmp_loaded, cmp_new, cmp_todo, cmp_next_id, cmp_result >>

\* The variables of the sub-systems other than the four above.
laterVars == << toolVars, mwVars, reflectVars, consolVars, bakVars, indexVars, llmVars, promptVars, agentVars, archVars, rateVars, permVars, dedupVars, execVars, loopVars, fetchVars, diskVars, sseVars, replayVars, callsVars, replVars, streamVars >>

nonRunVars == << gateVars, memVars, cacheVars, laterVars >>

coreVars == << runVars, gateVars, memVars, cacheVars >>

\* What the actions of each of these sub-systems leave alone.
frameTool == << runVars, memVars, cacheVars, mwVars, reflectVars, consolVars, bakVars, indexVars, llmVars, promptVars, agentVars, archVars, rateVars, permVars, dedupVars, execVars, loopVars, fetchVars, diskVars, sseVars, replayVars, callsVars, replVars, streamVars >>
frameMw == << coreVars, toolVars, reflectVars, consolVars, bakVars, indexVars, llmVars, promptVars, agentVars, archVars, rateVars, permVars, dedupVars, execVars, loopVars, fetchVars, diskVars, sseVars, replayVars, callsVars, replVars, streamVars >>
frameReflect == << coreVars, toolVars, mwVars, consolVars, bakVars, indexVars, llmVars, promptVars, agentVars, archVars, rateVars, permVars, dedupVars, execVars, loopVars, fetchVars, diskVars, sseVars, replayVars, callsVars, replVars, streamVars >>
frameConsol == << coreVars, toolVars, mwVars, reflectVars, bakVars, indexVars, llmVars, promptVars, agentVars, archVars, rateVars, permVars, dedupVars, execVars, loopVars, fetchVars, diskVars, sseVars, replayVars, callsVars, replVars, streamVars >>
frameBak == << coreVars, toolVars, mwVars, reflectVars, consolVars, indexVars, llmVars, promptVars, agentVars, archVars, rateVars, permVars, dedupVars, execVars, loopVars, fetchVars, diskVars, sseVars, replayVars, callsVars, replVars, streamVars >>
frameIndex == << coreVars, toolVars, mwVars, reflectVars, consolVars, bakVars, llmVars, promptVars, agentVars, archVars, rateVars, permVars, dedupVars, execVars, loopVars, fetchVars, diskVars, sseVars, replayVars, callsVars, replVars, streamVars >>
frameLlm == << coreVars, toolVars, mwVars, reflectVars, consolVars, bakVars, indexVars, promptVars, agentVars, archVars, rateVars, permVars, dedupVars, execVars, loopVars, fetchVars, diskVars, sseVars, replayVars, callsVars, replVars, streamVars >>
framePrompt == << coreVars, toolVars, mwVars, reflectVars, consolVars, bakVars, indexVars, llmVars, agentVars, archVars, rateVars, permVars, dedupVars, execVars, loopVars, fetchVars, diskVars, sseVars, replayVars, callsVars, replVars, streamVars >>
frameAgent == << coreVars, toolVars, mwVars, reflectVars, consolVars, bakVars, indexVars, llmVars, promptVars, archVars, rateVars, permVars, dedupVars, execVars, loopVars, fetchVars, diskVars, sseVars, replayVars, callsVars, replVars, streamVars >>
frameArch == << coreVars, toolVars, mwVars, reflectVars, consolVars, bakVars, indexVars, llmVars, promptVars, agentVars, rateVars, permVars, dedupVars, execVars, loopVars, fetchVars, diskVars, sseVars, replayVars, callsVars, replVars, streamVars >>
frameRate == << coreVars, toolVars, mwVars, reflectVars, consolVars, bakVars, indexVars, llmVars, promptVars, agentVars, archVars, permVars, dedupVars, execVars, loopVars, fetchVars, diskVars, sseVars, replayVars, callsVars, replVars, streamVars >>
framePerm == << coreVars, toolVars, mwVars, reflectVars, consolVars, bakVars, indexVars, llmVars, promptVars, agentVars, archVars, rateVars, dedupVars, execVars, loopVars, fetchVars, diskVars, sseVars, replayVars, callsVars, replVars, streamVars >>
frameDedup == << coreVars, toolVars, mwVars, reflectVars, consolVars, bakVars, indexVars, llmVars, promptVars, agentVars, archVars, rateVars, permVars, execVars, loopVars, fetchVars, diskVars, sseVars, replayVars, callsVars, replVars, streamVars >>
frameExec == << coreVars, toolVars, mwVars, reflectVars, consolVars, bakVars, indexVars, llmVars, promptVars, agentVars, archVars, rateVars, permVars, dedupVars, loopVars, fetchVars, diskVars, sseVars, replayVars, callsVars, replVars, streamVars >>
frameLoop == << coreVars, toolVars, mwVars, reflectVars, consolVars, bakVars, indexVars, llmVars, promptVars, agentVars, archVars, rateVars, permVars, dedupVars, execVars, fetchVars, diskVars, sseVars, replayVars, callsVars, replVars, streamVars >>
frameFetch == << coreVars, toolVars, mwVars, reflectVars, consolVars, bakVars, indexVars, llmVars, promptVars, agentVars, archVars, rateVars, permVars, dedupVars, execVars, loopVars, diskVars, sseVars, replayVars, callsVars, replVars, streamVars >>
frameDisk == << coreVars, toolVars, mwVars, reflectVars, consolVars, bakVars, indexVars, llmVars, promptVars, agentVars, archVars, rateVars, permVars, dedupVars, execVars, loopVars, fetchVars, sseVars, replayVars, callsVars, replVars, streamVars >>
frameSse == << coreVars, toolVars, mwVars, reflectVars, consolVars, bakVars, indexVars, llmVars, promptVars, agentVars, archVars, rateVars, permVars, dedupVars, execVars, loopVars, fetchVars, diskVars, replayVars, callsVars, replVars, streamVars >>
frameReplay == << coreVars, toolVars, mwVars, reflectVars, consolVars, bakVars, indexVars, llmVars, promptVars, agentVars, archVars, rateVars, permVars, dedupVars, execVars, loopVars, fetchVars, diskVars, sseVars, callsVars, replVars, streamVars >>
frameCalls == << coreVars, toolVars, mwVars, reflectVars, consolVars, bakVars, indexVars, llmVars, promptVars, agentVars, archVars, rateVars, permVars, dedupVars, execVars, loopVars, fetchVars, diskVars, sseVars, replayVars, replVars, streamVars >>
frameRepl == << coreVars, toolVars, mwVars, reflectVars, consolVars, bakVars, indexVars, llmVars, promptVars, agentVars, archVars, rateVars, permVars, dedupVars, execVars, loopVars, fetchVars, diskVars, sseVars, replayVars, callsVars, streamVars >>
frameStream == << coreVars, toolVars, mwVars, reflectVars, consolVars, bakVars, indexVars, llmVars, promptVars, agentVars, archVars, rateVars, permVars, dedupVars, execVars, loopVars, fetchVars, diskVars, sseVars, replayVars, callsVars, replVars >>

----------------------------------------------------------------------------
\* Bounds of the model.

\* successive runs on the one thread_id
MaxRuns == 2
\* plans the agent creates over the life of the thread
MaxPlans == 2
\* steps of a plan as created by plan_create
MaxSteps == 2
\* revise decisions of the replanner over the life of the thread
MaxRevisions == 1
\* POSTs to /api/plan/approve for one plan_id
MaxPosts == 2

\* executor.max_steps of the built-in default configuration
DefaultMaxSteps == 8

Runs == 1..MaxRuns
PlanIds == 1..MaxPlans

----------------------------------------------------------------------------
\* Data.

\* plan_data is None or a PlanData: the empty sequence or a one-element one.
NoPlan == << >>

HasPlan(pd) == pd # NoPlan

PlanOf(pd) == pd[1]

\* build_plan_steps / the step list built by _parse_plan_from_tool_result and
\* by the replanner's revise branch: ids from+1 .. from+n, all pending.
NewSteps(n, from) == [i \in 1..n |-> [id |-> from + i, status |-> "pending"]]

MkPlan(pid, n) == << [plan_id |-> pid, steps |-> NewSteps(n, 0)] >>

\* An event of the output stream. seq is the position of a side-channel event
\* in the thread's pending_events list (0 for every other event): it tells two
\* equal-looking side-channel events apart.
Ev(t, p, s, st) == [type |-> t, plan |-> p, step |-> s, status |-> st, seq |-> 0]

SideTypes == {"plan_created", "plan_updated", "plan_revised", "plan_approval_resolved"}

IsSide(e) == e.type \in SideTypes

Msg(kind, id) == [kind |-> kind, id |-> id]

\* langgraph add_messages: a message whose id matches an existing one replaces
\* it in place, every other message is appended.
RECURSIVE AddMessages(_, _)
AddMessages(left, right) ==
  IF right = << >> THEN left
  ELSE LET m == Head(right)
           hit == {i \in 1..Len(left) : m.id # "" /\ left[i].id = m.id}
           merged == IF hit = {} THEN Append(left, m)
                     ELSE [i \in 1..Len(left) |-> IF i \in hit THEN m ELSE left[i]]
       IN AddMessages(merged, Tail(right))

\* operator.add on pending_events; the appended events get their positions.
AddPending(old, new) ==
  old \o [i \in 1..Len(new) |-> [new[i] EXCEPT !.seq = Len(old) + i]]

\* The slice of the thread's pending_events a node output adds.
Added(old, new) == SubSeq(AddPending(old, new), Len(old) + 1, Len(old) + Len(new))

----------------------------------------------------------------------------
\* stream_graph_events, the on_chain_end branch: `pending` is the
\* pending_events value of the event's output ([] when the key is absent).
AdapterNew(pending, seen) == SubSeq(pending, seen + 1, Len(pending))

AdapterSeen(pending) == Len(pending)

\* What a node's completion does to the stream: the node's runtime events
\* (tokens), then the on_chain_end of the node with the node's own output.
NodeEnd(tokens, nodePending) ==
  /\ out' = out \o tokens \o AdapterNew(nodePending, seen_event_count)
  /\ seen_event_count' = AdapterSeen(nodePending)

----------------------------------------------------------------------------
\* Edges (engine/edges.py, engine/graph_builder.py).

route_after_agent(outcome, pd) ==
  IF outcome = "plan_create" /\ HasPlan(pd) THEN "plan_gate" ELSE "END"

\* build_graph: with the planner disabled the agent is wired straight to END.
AfterAgent(outcome, pd) ==
  IF cfg.planner THEN route_after_agent(outcome, pd) ELSE "END"

route_after_plan_gate(approval_enabled) ==
  IF approval_enabled THEN "approval" ELSE "executor"

route_after_approval(pd) == IF pd = NoPlan THEN "agent" ELSE "executor"

route_after_replanner(action) ==
  IF action = "finish" THEN "summarizer" ELSE "executor"

\* build_graph maps the replanner's "summarizer" target to END when the
\* summarizer is disabled.
AfterReplanner(action) ==
  LET r == route_after_replanner(action)
  IN IF r = "summarizer" /\ ~cfg.summarizer THEN "END" ELSE r

\* _route_executor_no_replanner / _route_executor_minimal.
RouteExecutorNoReplanner(pd, step_index, max_steps) ==
  LET fin == IF cfg.summarizer THEN "summarizer" ELSE "END"
  IN IF ~HasPlan(pd) THEN fin
     ELSE IF step_index >= Len(PlanOf(pd).steps) \/ step_index >= max_steps
          THEN fin ELSE "executor"

AfterExecutor(pd, step_index) ==
  IF cfg.replanner THEN "replanner"
  ELSE RouteExecutorNoReplanner(pd, step_index, DefaultMaxSteps)

----------------------------------------------------------------------------
\* Nodes. Each action is one superstep of the graph: the node's state update
\* through the reducers, its runtime events and its on_chain_end as handled
\* by stream_graph_events, and the routing to the next node.

GraphRunning == pc \in {"stream1", "stream2"} /\ ~suspended /\ next_node # "END"

Token == Ev("token", 0, 0, "")

histVars == << plansMade, revisions, posts, pendingAtRunStart, interruptRun,
               resumeCount, decisionOf, enteredFor, registeredBy, everCancelled >>

runnerVars == << pc, runNo, pump_cancelled, plan_ctx, approval_queue >>

\* agent_node, the loop ends with a reply that has no tool calls. A reply
\* that timed out ends the same way, its AIMessage holding the error text.
AgentRespond ==
  /\ GraphRunning /\ next_node = "agent"
  /\ messages' = AddMessages(messages, << Msg("ai", "") >>)
  /\ NodeEnd(<< Token >>, << >>)
  /\ agent_outcome' = "respond"
  /\ next_node' = AfterAgent("respond", plan_data)
  /\ UNCHANGED << cfg, plan_data, current_step_index, past_steps, replan_action,
                  pending_events, suspended, resume_value >>
  /\ UNCHANGED runnerVars /\ UNCHANGED histVars
  /\ UNCHANGED nonRunVars

\* agent_node, the LLM calls plan_create: the plan is parsed from the tool
\* call and the loop is left with outcome plan_create.
AgentPlanCreate ==
  /\ GraphRunning /\ next_node = "agent"
  /\ plansMade < MaxPlans
  /\ \E n \in 1..MaxSteps :
       plan_data' = MkPlan(plansMade + 1, n)
  /\ plansMade' = plansMade + 1
  /\ messages' = AddMessages(messages, << Msg("ai_toolcall", ""), Msg("tool", "") >>)
  /\ NodeEnd(<< Token >>, << >>)
  /\ agent_outcome' = "plan_create"
  /\ next_node' = AfterAgent("plan_create", plan_data')
  /\ UNCHANGED << cfg, current_step_index, past_steps, replan_action,
                  pending_events, suspended, resume_value >>
  /\ UNCHANGED runnerVars
  /\ UNCHANGED << revisions, posts, pendingAtRunStart, interruptRun,
                  resumeCount, decisionOf, enteredFor, registeredBy, everCancelled >>
  /\ UNCHANGED nonRunVars

\* plan_gate_node.
PlanGateNode ==
  /\ GraphRunning /\ next_node = "plan_gate"
  /\ IF HasPlan(plan_data)
     THEN LET new == << Ev("plan_created", PlanOf(plan_data).plan_id, 0, "") >>
          IN /\ current_step_index' = 0
             /\ pending_events' = AddPending(pending_events, new)
             /\ NodeEnd(<< >>, Added(pending_events, new))
     ELSE /\ UNCHANGED << current_step_index, pending_events >>
          /\ NodeEnd(<< >>, << >>)
  /\ next_node' = route_after_plan_gate(cfg.approval)
  /\ UNCHANGED << cfg, messages, agent_outcome, plan_data, past_steps,
                  replan_action, suspended, resume_value >>
  /\ UNCHANGED runnerVars /\ UNCHANGED histVars
  /\ UNCHANGED nonRunVars

\* approval_node reaching interrupt() with no resume value: the graph is
\* checkpointed and halts with the node still pending.
ApprovalInterrupt ==
  /\ GraphRunning /\ next_node = "approval"
  /\ HasPlan(plan_data) /\ resume_value = "none"
  /\ suspended' = TRUE
  /\ interruptRun' = [interruptRun EXCEPT ![PlanOf(plan_data).plan_id] = runNo]
  /\ UNCHANGED << cfg, messages, agent_outcome, plan_data, current_step_index,
                  past_steps, replan_action, pending_events, next_node,
                  resume_value, seen_event_count, out >>
  /\ UNCHANGED runnerVars
  /\ UNCHANGED << plansMade, revisions, posts, pendingAtRunStart, resumeCount,
                  decisionOf, enteredFor, registeredBy, everCancelled >>
  /\ UNCHANGED nonRunVars

\* A denied branch that leaves the plan in place.
ApprovalKeepsPlan(pd) == pd

\* approval_node, the state update of the denied branch.
ApprovalDeniedPlan(pd) == NoPlan

\* approval_node re-run on resume: interrupt() returns the resume value.
ApprovalResolve ==
  /\ GraphRunning /\ next_node = "approval"
  /\ HasPlan(plan_data) /\ resume_value # "none"
  /\ LET pid == PlanOf(plan_data).plan_id
         new == << Ev("plan_approval_resolved", pid, 0, resume_value) >>
     IN /\ pending_events' = AddPending(pending_events, new)
        /\ NodeEnd(<< >>, Added(pending_events, new))
        /\ IF resume_value = "approved"
           THEN UNCHANGED << plan_data, messages >>
           ELSE /\ plan_data' = ApprovalDeniedPlan(plan_data)
                /\ messages' = AddMessages(messages, << Msg("plan_rejected", "") >>)
  /\ resume_value' = "none"
  /\ next_node' = route_after_approval(plan_data')
  /\ UNCHANGED << cfg, agent_outcome, current_step_index, past_steps,
                  replan_action, suspended >>
  /\ UNCHANGED runnerVars /\ UNCHANGED histVars
  /\ UNCHANGED nonRunVars

\* executor_node. A step ends completed, its response free of error
\* indicators ("ok"), or failed, its response being "[ERROR] ..." ("err").
StepResults == { << "completed", "ok" >>, << "failed", "err" >> }

ExecutorNode ==
  /\ GraphRunning /\ next_node = "executor"
  /\ IF ~HasPlan(plan_data) \/ current_step_index >= Len(PlanOf(plan_data).steps)
     THEN \* early returns: only step_response is written
          /\ UNCHANGED << messages, current_step_index, past_steps, pending_events >>
          /\ NodeEnd(<< >>, << >>)
     ELSE \E r \in StepResults :
          LET plan == PlanOf(plan_data)
              step == plan.steps[current_step_index + 1]
              new == << Ev("plan_updated", plan.plan_id, step.id, "running"),
                        Ev("plan_updated", plan.plan_id, step.id, r[1]) >>
          IN /\ messages' = AddMessages(messages, << Msg("step_summary", "") >>)
             /\ current_step_index' = current_step_index + 1
             /\ past_steps' = Append(past_steps, r[2])
             /\ pending_events' = AddPending(pending_events, new)
             /\ NodeEnd(<< Token >>, Added(pending_events, new))
  /\ enteredFor' = IF HasPlan(plan_data)
                   THEN enteredFor \cup {PlanOf(plan_data).plan_id}
                   ELSE enteredFor
  /\ next_node' = AfterExecutor(plan_data, current_step_index')
  /\ UNCHANGED << cfg, agent_outcome, plan_data, replan_action, suspended,
                  resume_value >>
  /\ UNCHANGED runnerVars
  /\ UNCHANGED << plansMade, revisions, posts, pendingAtRunStart, interruptRun,
                  resumeCount, decisionOf, registeredBy, everCancelled >>
  /\ UNCHANGED nonRunVars

\* _should_skip_replan.
ShouldSkipReplan(past, step_index, total, skip_on_success) ==
  LET last_step_failed == past # << >> /\ past[Len(past)] = "err"
  IN IF last_step_failed THEN FALSE
     ELSE IF total - step_index <= 1 THEN TRUE
     ELSE skip_on_success

\* The pending events of the replanner's finish branch: the steps from
\* step_index on are reported completed.
FinishEvents(plan, step_index) ==
  [i \in 1..(Len(plan.steps) - step_index) |->
     Ev("plan_updated", plan.plan_id, plan.steps[step_index + i].id, "completed")]

\* replanner_node without an LLM call: no plan, nothing left, or the
\* heuristic pre-check.
ReplannerHeuristic ==
  /\ GraphRunning /\ next_node = "replanner"
  /\ \/ /\ \/ ~HasPlan(plan_data)
           \/ Len(PlanOf(plan_data).steps) - current_step_index <= 0
        /\ replan_action' = "finish"
     \/ /\ HasPlan(plan_data)
        /\ Len(PlanOf(plan_data).steps) - current_step_index > 0
        /\ ShouldSkipReplan(past_steps, current_step_index,
                            Len(PlanOf(plan_data).steps), cfg.skip_on_success)
        /\ replan_action' = "continue"
  /\ NodeEnd(<< >>, << >>)
  /\ next_node' = AfterReplanner(replan_action')
  /\ UNCHANGED << cfg, messages, agent_outcome, plan_data, current_step_index,
                  past_steps, pending_events, suspended, resume_value >>
  /\ UNCHANGED runnerVars /\ UNCHANGED histVars
  /\ UNCHANGED nonRunVars

\* A revision that replaces the whole step list by the n new steps.
RevisedReplacesAll(steps, step_index, n) == NewSteps(n, step_index)

\* replanner_node, the revise branch: the steps before step_index are kept
\* and the n new steps follow them.
RevisedSteps(steps, step_index, n) ==
  SubSeq(steps, 1, step_index) \o NewSteps(n, step_index)

\* replanner_node with the LLM evaluation (_evaluate_replan).
ReplannerLLM ==
  /\ GraphRunning /\ next_node = "replanner"
  /\ HasPlan(plan_data)
  /\ Len(PlanOf(plan_data).steps) - current_step_index > 0
  /\ ~ShouldSkipReplan(past_steps, current_step_index,
                       Len(PlanOf(plan_data).steps), cfg.skip_on_success)
  /\ LET plan == PlanOf(plan_data) IN
     \/ \* the call fails (decision is None), or the decision is continue,
        \* or revise with no steps
        /\ \E a \in {"continue", "revise"} : replan_action' = a
        /\ NodeEnd(<< >>, << >>)
        /\ UNCHANGED << messages, plan_data, pending_events, revisions >>
     \/ \* finish, with or without a final response
        /\ replan_action' = "finish"
        /\ \E withResponse \in BOOLEAN :
             messages' = IF withResponse
                         THEN AddMessages(messages, << Msg("ai", "") >>)
                         ELSE messages
        /\ LET new == FinishEvents(plan, current_step_index)
           IN /\ pending_events' = AddPending(pending_events, new)
              /\ NodeEnd(<< >>, Added(pending_events, new))
        /\ UNCHANGED << plan_data, revisions >>
     \/ \* revise with n new steps
        /\ revisions < MaxRevisions
        /\ replan_action' = "revise"
        /\ \E n \in 1..MaxSteps :
             plan_data' = << [plan EXCEPT !.steps =
                                RevisedSteps(plan.steps, current_step_index, n)] >>
        /\ LET new == << Ev("plan_revised", plan.plan_id, current_step_index, "") >>
           IN /\ pending_events' = AddPending(pending_events, new)
              /\ NodeEnd(<< >>, Added(pending_events, new))
        /\ revisions' = revisions + 1
        /\ UNCHANGED messages
  /\ next_node' = AfterReplanner(replan_action')
  /\ UNCHANGED << cfg, agent_outcome, current_step_index, past_steps,
                  suspended, resume_value >>
  /\ UNCHANGED runnerVars
  /\ UNCHANGED << plansMade, posts, pendingAtRunStart, interruptRun,
                  resumeCount, decisionOf, enteredFor, registeredBy, everCancelled >>
  /\ UNCHANGED nonRunVars

\* The pending events of the summarizer: plan_updated(completed) for every
\* step of plan_data whose status is pending.
RECURSIVE SummarizerEvents(_, _)
SummarizerEvents(pid, steps) ==
  IF steps = << >> THEN << >>
  ELSE (IF Head(steps).status = "pending"
        THEN << Ev("plan_updated", pid, Head(steps).id, "completed") >>
        ELSE << >>) \o SummarizerEvents(pid, Tail(steps))

\* summarizer_node.
SummarizerNode ==
  /\ GraphRunning /\ next_node = "summarizer"
  /\ LET new == IF HasPlan(plan_data)
                THEN SummarizerEvents(PlanOf(plan_data).plan_id, PlanOf(plan_data).steps)
                ELSE << >>
     IN /\ pending_events' = AddPending(pending_events, new)
        /\ NodeEnd(<< >>, Added(pending_events, new))
  /\ messages' = AddMessages(messages, << Msg("summary", "") >>)
  /\ plan_data' = NoPlan
  /\ current_step_index' = 0
  /\ past_steps' = << >>
  /\ agent_outcome' = "none"
  /\ replan_action' = "none"
  /\ next_node' = "agent"
  /\ UNCHANGED << cfg, suspended, resume_value >>
  /\ UNCHANGED runnerVars /\ UNCHANGED histVars
  /\ UNCHANGED nonRunVars

----------------------------------------------------------------------------
\* The Runner (engine/runner.py), the SSE pump (app.py) and the plan-approval
\* endpoint (app.py).

graphVars == << messages, agent_outcome, plan_data, current_step_index,
                past_steps, replan_action, pending_events, next_node,
                suspended, resume_value >>

\* The graph configurations: with the planner disabled only the agent node is
\* wired; skip_on_success matters only with the replanner.
Configs ==
  { c \in [planner : BOOLEAN, approval : BOOLEAN, replanner : BOOLEAN,
           summarizer : BOOLEAN, skip_on_success : BOOLEAN] :
      /\ ~c.planner => (~c.approval /\ ~c.replanner /\ ~c.summarizer)
      /\ ~c.replanner => ~c.skip_on_success }

InitRunWith(c) ==
  /\ cfg = c
  /\ messages = << >>
  /\ agent_outcome = "none"
  /\ plan_data = NoPlan
  /\ current_step_index = 0
  /\ past_steps = << >>
  /\ replan_action = "none"
  /\ pending_events = << >>
  /\ next_node = "END"
  /\ suspended = FALSE
  /\ resume_value = "none"
  /\ seen_event_count = 0
  /\ pc = "idle"
  /\ runNo = 0
  /\ out = << >>
  /\ pump_cancelled = FALSE
  /\ plan_ctx = [p \in PlanIds |-> 0]
  /\ approval_queue = [r \in Runs |-> << >>]
  /\ plansMade = 0
  /\ revisions = 0
  /\ posts = [p \in PlanIds |-> 0]
  /\ pendingAtRunStart = 0
  /\ interruptRun = [p \in PlanIds |-> 0]
  /\ resumeCount = [p \in PlanIds |-> 0]
  /\ decisionOf = [p \in PlanIds |-> "none"]
  /\ enteredFor = {}
  /\ registeredBy = [p \in PlanIds |-> 0]
  /\ everCancelled = FALSE

InitRun == \E c \in Configs : InitRunWith(c)

\* The built-in default configuration (engine/config_loader.py).
DefaultConfig ==
  [planner |-> TRUE, approval |-> FALSE, replanner |-> TRUE,
   summarizer |-> TRUE, skip_on_success |-> TRUE]

\* A new request on the thread: _stream_agent_response creates the pump task,
\* _run_uncached builds input_state and starts the first stream. The input is
\* applied to the checkpointed state through the reducers and the graph
\* starts at its entry point.
StartRun ==
  /\ pc \in {"idle", "ended", "cancelled"}
  /\ runNo < MaxRuns
  /\ runNo' = runNo + 1
  /\ messages' = AddMessages(messages, << Msg("system", "system-prompt"), Msg("user", "") >>)
  /\ current_step_index' = 0
  /\ next_node' = "agent"
  /\ suspended' = FALSE
  /\ resume_value' = "none"
  /\ seen_event_count' = 0
  /\ out' = << >>
  /\ pump_cancelled' = FALSE
  /\ pendingAtRunStart' = Len(pending_events)
  /\ pc' = "stream1"
  /\ UNCHANGED << cfg, agent_outcome, plan_data, past_steps, replan_action,
                  pending_events, plan_ctx, approval_queue >>
  /\ UNCHANGED << plansMade, revisions, posts, interruptRun, resumeCount,
                  decisionOf, enteredFor, registeredBy, everCancelled >>
  /\ UNCHANGED nonRunVars

\* A pump that swallows the exception without queueing anything.
PumpSwallows(stream) == stream

\* pump_agent_events, `except Exception`: an error event is queued.
PumpOnException(stream) == Append(stream, Ev("error", 0, 0, ""))

\* agent_node, the LLM call raises something other than a timeout: the
\* exception leaves astream_events. In the first stream nothing catches it
\* before pump_agent_events; in the resume stream _run_uncached catches it.
AgentRaises ==
  /\ GraphRunning /\ next_node = "agent"
  /\ IF pc = "stream1"
     THEN /\ out' = PumpOnException(out)
          /\ pc' = "closed"
     ELSE /\ out' = out
          /\ pc' = "emit_done"
  /\ UNCHANGED << cfg, seen_event_count, runNo, pump_cancelled, plan_ctx,
                  approval_queue >>
  /\ UNCHANGED graphVars /\ UNCHANGED histVars
  /\ UNCHANGED nonRunVars

\* stream_graph_events, the on_chain_end of the graph itself: its output is
\* the state of the thread.
RootChainEnd(pending, seen) == AdapterNew(pending, seen)

\* The graph halts (END reached, or suspended at the interrupt): the root
\* on_chain_end is handled and the stream generator is exhausted.
StreamEnd ==
  /\ pc \in {"stream1", "stream2"}
  /\ suspended \/ next_node = "END"
  /\ out' = out \o RootChainEnd(pending_events, seen_event_count)
  /\ seen_event_count' = AdapterSeen(pending_events)
  /\ pc' = IF pc = "stream1" THEN "check" ELSE "emit_done"
  /\ UNCHANGED << cfg, runNo, pump_cancelled, plan_ctx, approval_queue >>
  /\ UNCHANGED graphVars /\ UNCHANGED histVars
  /\ UNCHANGED nonRunVars

\* _run_uncached step 6: the snapshot has a pending node exactly when the
\* graph is suspended; the approval queue is registered under the plan_id and
\* plan_approval_request is emitted.
CheckInterrupt ==
  /\ pc = "check"
  /\ IF suspended
     THEN LET pid == PlanOf(plan_data).plan_id
          IN /\ plan_ctx' = [plan_ctx EXCEPT ![pid] = runNo]
             /\ registeredBy' = [registeredBy EXCEPT ![pid] = runNo]
             /\ out' = Append(out, Ev("plan_approval_request", pid, 0, ""))
             /\ pc' = "wait"
     ELSE /\ UNCHANGED << plan_ctx, registeredBy, out >>
          /\ pc' = "emit_done"
  /\ UNCHANGED << cfg, seen_event_count, runNo, pump_cancelled, approval_queue >>
  /\ UNCHANGED graphVars
  /\ UNCHANGED << plansMade, revisions, posts, pendingAtRunStart, interruptRun,
                  resumeCount, decisionOf, enteredFor, everCancelled >>
  /\ UNCHANGED nonRunVars

\* Command(resume={"approved": approved}) and a new stream_graph_events call.
Resume(approved, how) ==
  LET pid == PlanOf(plan_data).plan_id
  IN /\ resume_value' = IF approved THEN "approved" ELSE "denied"
     /\ suspended' = FALSE
     /\ seen_event_count' = 0
     /\ resumeCount' = [resumeCount EXCEPT ![pid] = @ + 1]
     /\ decisionOf' = [decisionOf EXCEPT ![pid] = how]
     /\ pc' = "stream2"

\* _wait_for_approval returns the queued decision.
WaitDecision ==
  /\ pc = "wait"
  /\ approval_queue[runNo] # << >>
  /\ Resume(Head(approval_queue[runNo]),
            IF Head(approval_queue[runNo]) THEN "approved" ELSE "denied")
  /\ approval_queue' = [approval_queue EXCEPT ![runNo] = Tail(@)]
  /\ UNCHANGED << cfg, messages, agent_outcome, plan_data, current_step_index,
                  past_steps, replan_action, pending_events, next_node, runNo,
                  out, pump_cancelled, plan_ctx >>
  /\ UNCHANGED << plansMade, revisions, posts, pendingAtRunStart, interruptRun,
                  enteredFor, registeredBy, everCancelled >>
  /\ UNCHANGED nonRunVars

\* _wait_for_approval times out after 300 s: treated as a denial.
WaitTimeout ==
  /\ pc = "wait"
  /\ approval_queue[runNo] = << >>
  /\ Resume(FALSE, "timeout")
  /\ UNCHANGED << cfg, messages, agent_outcome, plan_data, current_step_index,
                  past_steps, replan_action, pending_events, next_node, runNo,
                  out, pump_cancelled, plan_ctx, approval_queue >>
  /\ UNCHANGED << plansMade, revisions, posts, pendingAtRunStart, interruptRun,
                  enteredFor, registeredBy, everCancelled >>
  /\ UNCHANGED nonRunVars

\* POST /api/plan/approve (approve_plan): the entry is popped and the decision
\* queued; an unknown plan_id is answered with 404 and changes nothing.
\* Requests are made for plans whose approval request was sent to the client.
ApprovePlan ==
  /\ \E pid \in PlanIds, approved \in BOOLEAN :
       /\ registeredBy[pid] # 0
       /\ posts[pid] < MaxPosts
       /\ posts' = [posts EXCEPT ![pid] = @ + 1]
       /\ IF plan_ctx[pid] # 0
          THEN /\ approval_queue' = [approval_queue EXCEPT ![plan_ctx[pid]] = Append(@, approved)]
               /\ plan_ctx' = [plan_ctx EXCEPT ![pid] = 0]
          ELSE UNCHANGED << plan_ctx, approval_queue >>
  /\ UNCHANGED << cfg, seen_event_count, pc, runNo, out, pump_cancelled >>
  /\ UNCHANGED graphVars
  /\ UNCHANGED << plansMade, revisions, pendingAtRunStart, interruptRun,
                  resumeCount, decisionOf, enteredFor, registeredBy, everCancelled >>
  /\ UNCHANGED nonRunVars

\* _run_uncached yields done; run_agent's finally and the pump's finally
\* close the stream.
EmitDone ==
  /\ pc = "emit_done"
  /\ out' = Append(out, Ev("done", 0, 0, ""))
  /\ pc' = "closed"
  /\ UNCHANGED << cfg, seen_event_count, runNo, pump_cancelled, plan_ctx,
                  approval_queue >>
  /\ UNCHANGED graphVars /\ UNCHANGED histVars
  /\ UNCHANGED nonRunVars

\* _stream_agent_response: the consumer loop leaves on the end of the stream
\* and the finally block cancels the pump task.
ConsumerFinally ==
  /\ pc = "closed"
  /\ pump_cancelled' = TRUE
  /\ pc' = "ended"
  /\ UNCHANGED << cfg, seen_event_count, runNo, out, plan_ctx, approval_queue >>
  /\ UNCHANGED graphVars /\ UNCHANGED histVars
  /\ UNCHANGED nonRunVars

\* The client disconnects while the run is in progress: the response
\* generator is closed, its finally block cancels the pump task and with it
\* the run, wherever it is.
CancelRun ==
  /\ pc \in {"stream1", "check", "wait", "stream2", "emit_done"}
  /\ pump_cancelled' = TRUE
  /\ pc' = "cancelled"
  /\ everCancelled' = TRUE
  /\ UNCHANGED << cfg, seen_event_count, runNo, out, plan_ctx, approval_queue >>
  /\ UNCHANGED graphVars
  /\ UNCHANGED << plansMade, revisions, posts, pendingAtRunStart, interruptRun,
                  resumeCount, decisionOf, enteredFor, registeredBy >>
  /\ UNCHANGED nonRunVars

----------------------------------------------------------------------------
\* The tool-approval gate (security/gate.py).

\* approval requests created by check_permission
MaxRequests == 2
\* calls of resolve_approval with one request_id
MaxResolves == 2

RequestIds == 1..MaxRequests

InitGate ==
  /\ gate_pending = {}
  /\ gate_approval = [r \in RequestIds |-> [approved |-> "none", event |-> FALSE]]
  /\ gate_caller = [r \in RequestIds |-> "idle"]
  /\ gate_result = [r \in RequestIds |-> "none"]
  /\ resolve_log = [r \in RequestIds |-> << >>]

\* A map of pending requests left as it is.
PendingLeft(pending, r) == pending

\* _cleanup_pending.
CleanupPending(pending, r) == pending \ {r}

\* check_permission reaching _request_approval: the PendingApproval is put
\* in _pending and the request is sent through the SSE callback; when the
\* callback raises, the entry is removed and the call is denied.
RequestApproval(r) ==
  /\ gate_caller[r] = "idle"
  /\ \A q \in RequestIds : q < r => gate_caller[q] # "idle"
  /\ gate_approval' = [gate_approval EXCEPT ![r] = [approved |-> "none", event |-> FALSE]]
  /\ \E sse_ok \in BOOLEAN :
       IF sse_ok
       THEN /\ gate_pending' = gate_pending \cup {r}
            /\ gate_caller' = [gate_caller EXCEPT ![r] = "waiting"]
            /\ UNCHANGED gate_result
       ELSE /\ gate_pending' = CleanupPending(gate_pending \cup {r}, r)
            /\ gate_caller' = [gate_caller EXCEPT ![r] = "returned"]
            /\ gate_result' = [gate_result EXCEPT ![r] = "unreachable"]
  /\ UNCHANGED resolve_log
  /\ UNCHANGED << runVars, memVars, cacheVars, laterVars >>

\* resolve_approval, the entries of _pending after the call.
PendingAfterResolve(pending, r) == pending

\* resolve_approval(request_id, approved), called by POST /api/approve for a
\* request_id that was sent to the client.
ResolveApproval(r, approved) ==
  /\ gate_caller[r] \in {"waiting", "returned"}
  /\ gate_result[r] # "unreachable"
  /\ Len(resolve_log[r]) < MaxResolves
  /\ IF r \in gate_pending
     THEN /\ gate_approval' = [gate_approval EXCEPT ![r] =
                                 [approved |-> IF approved THEN "yes" ELSE "no",
                                  event |-> TRUE]]
          /\ gate_pending' = PendingAfterResolve(gate_pending, r)
          /\ resolve_log' = [resolve_log EXCEPT ![r] =
                               Append(@, [approved |-> approved, returned |-> TRUE])]
     ELSE /\ UNCHANGED << gate_approval, gate_pending >>
          /\ resolve_log' = [resolve_log EXCEPT ![r] =
                               Append(@, [approved |-> approved, returned |-> FALSE])]
  /\ UNCHANGED << gate_caller, gate_result >>
  /\ UNCHANGED << runVars, memVars, cacheVars, laterVars >>

\* _request_approval after the wait: the event is set, the caller reads
\* pending.approved, removes the entry and returns.
CallerResume(r) ==
  /\ gate_caller[r] = "waiting"
  /\ gate_approval[r].event
  /\ gate_result' = [gate_result EXCEPT ![r] =
                       IF gate_approval[r].approved = "yes" THEN "approved" ELSE "denied"]
  /\ gate_pending' = CleanupPending(gate_pending, r)
  /\ gate_caller' = [gate_caller EXCEPT ![r] = "returned"]
  /\ UNCHANGED << gate_approval, resolve_log >>
  /\ UNCHANGED << runVars, memVars, cacheVars, laterVars >>

\* _request_approval, asyncio.TimeoutError: the entry is removed and the call
\* is denied.
CallerTimeout(r) ==
  /\ gate_caller[r] = "waiting"
  /\ ~gate_approval[r].event
  /\ gate_result' = [gate_result EXCEPT ![r] = "timeout"]
  /\ gate_pending' = CleanupPending(gate_pending, r)
  /\ gate_caller' = [gate_caller EXCEPT ![r] = "returned"]
  /\ UNCHANGED << gate_approval, resolve_log >>
  /\ UNCHANGED << runVars, memVars, cacheVars, laterVars >>

----------------------------------------------------------------------------
\* The tool wrapper (security/tool_wrapper.py) and POST /api/approve
\* (app.py). The invocation of a wrapped tool is identified with the request
\* r its check_permission call stands for.

\* POSTs to /api/approve for one request_id
MaxApprovePosts == 1

\* the feedback texts a client sends
Feedbacks == {"F"}

\* the names secured_invoke unpacks the result of check_permission into
UnpackArity == 3

NoResult == [kind |-> "none", reason |-> [instruct |-> FALSE, text |-> "none"]]

InitTool ==
  /\ tool_pc = [r \in RequestIds |-> "idle"]
  /\ tool_result = [r \in RequestIds |-> NoResult]
  /\ tool_executed = [r \in RequestIds |-> FALSE]
  /\ approve_log = [r \in RequestIds |-> << >>]

\* The outcomes of check_permission that need no approval: the rate limiter
\* refuses, the risk is BLOCKED, or the policy allows the call.
DirectOutcomes == {"rate_limited", "blocked", "auto_allowed"}

\* check_permission returning without _request_approval.
CheckPermission(r, outcome) ==
  /\ gate_caller[r] = "idle"
  /\ \A q \in RequestIds : q < r => gate_caller[q] # "idle"
  /\ outcome \in DirectOutcomes
  /\ gate_caller' = [gate_caller EXCEPT ![r] = "returned"]
  /\ gate_result' = [gate_result EXCEPT ![r] = outcome]
  /\ UNCHANGED << gate_pending, gate_approval, resolve_log >>
  /\ UNCHANGED << frameTool, toolVars >>

\* A reason string of the gate; none of them starts with "[用户指示]".
Reason(text) == [instruct |-> FALSE, text |-> text]

\* The tuple check_permission returns for each of its outcomes.
CheckPermissionReturn(outcome) ==
  CASE outcome = "rate_limited" -> << FALSE, Reason("rate limit exceeded") >>
    [] outcome = "blocked"      -> << FALSE, Reason("Operation blocked") >>
    [] outcome = "auto_allowed" -> << TRUE, Reason("auto_allowed") >>
    [] outcome = "approved"     -> << TRUE, Reason("user_approved") >>
    [] outcome = "denied"       -> << FALSE, Reason("User denied the operation") >>
    [] outcome = "timeout"      -> << FALSE, Reason("Approval timed out") >>
    [] outcome = "unreachable"  -> << FALSE, Reason("Failed to reach frontend") >>

\* reason.startswith("[用户指示]").
IsInstruct(reason) == reason.instruct

\* secured_invoke once check_permission has returned `ret`:
\* `allowed, reason, feedback = ret` raises ValueError unless ret has three
\* elements; a refusal becomes a string result; otherwise the tool runs.
SecuredOutcome(ret) ==
  IF Len(ret) # UnpackArity
  THEN [pc |-> "raised", executed |-> FALSE,
        result |-> [kind |-> "ValueError", reason |-> NoResult.reason]]
  ELSE IF ~ret[1]
  THEN [pc |-> "returned", executed |-> FALSE,
        result |-> IF IsInstruct(ret[2])
                   THEN [kind |-> "reconsider", reason |-> ret[2]]
                   ELSE [kind |-> "denied", reason |-> ret[2]]]
  ELSE [pc |-> "returned", executed |-> TRUE,
        result |-> [kind |-> "tool_result", reason |-> NoResult.reason]]

\* secured_invoke resuming from `await security_gate.check_permission(...)`.
SecuredInvoke(r) ==
  /\ tool_pc[r] = "idle"
  /\ gate_caller[r] = "returned"
  /\ LET o == SecuredOutcome(CheckPermissionReturn(gate_result[r]))
     IN /\ tool_pc' = [tool_pc EXCEPT ![r] = o.pc]
        /\ tool_result' = [tool_result EXCEPT ![r] = o.result]
        /\ tool_executed' = [tool_executed EXCEPT ![r] = o.executed]
  /\ UNCHANGED << approve_log, gateVars, frameTool >>

\* The parameters of SecurityGate.resolve_approval besides self.
ResolveParams == {"request_id", "approved"}

\* The arguments approve_tool passes to resolve_approval.
ApproveToolArgs == {"request_id", "approved", "feedback", "action"}

\* POST /api/approve for a request_id that was sent to the client. The call
\* of resolve_approval raises TypeError when it is given a keyword the method
\* does not have; approve_tool answers that with status 500.
ApproveTool(r, approved, action, feedback) ==
  /\ gate_caller[r] \in {"waiting", "returned"}
  /\ gate_result[r] \notin DirectOutcomes \cup {"unreachable"}
  /\ Len(approve_log[r]) < MaxApprovePosts
  /\ LET act == IF action # "none" THEN action
                ELSE IF approved THEN "approve" ELSE "deny"
         post == [approved |-> approved, action |-> act, feedback |-> feedback,
                  pending |-> r \in gate_pending]
     IN IF ~(ApproveToolArgs \subseteq ResolveParams)
        THEN /\ approve_log' = [approve_log EXCEPT ![r] =
                                  Append(@, [post |-> post, status |-> "error_500"])]
             /\ UNCHANGED gateVars
        ELSE IF r \in gate_pending
        THEN /\ gate_approval' = [gate_approval EXCEPT ![r] =
                                    [approved |-> IF approved THEN "yes" ELSE "no",
                                     event |-> TRUE]]
             /\ gate_pending' = PendingAfterResolve(gate_pending, r)
             /\ approve_log' = [approve_log EXCEPT ![r] =
                                  Append(@, [post |-> post, status |-> "ok"])]
             /\ UNCHANGED << gate_caller, gate_result, resolve_log >>
        ELSE /\ approve_log' = [approve_log EXCEPT ![r] =
                                  Append(@, [post |-> post, status |-> "expired"])]
             /\ UNCHANGED gateVars
  /\ UNCHANGED << tool_pc, tool_result, tool_executed, frameTool >>

----------------------------------------------------------------------------
\* The long-term memory store (memory/manager.py) and its compression
\* (memory/compressor.py).

\* threads calling the MemoryManager
MaxWorkers == 2
\* entry ids ever generated
MaxEntries == 3
\* modifications of an entry that are told apart
MaxRev == 1
\* distinct rolling summaries
MaxSummary == 1

Workers == 1..MaxWorkers
Compressor == 0
NoHolder == -1

\* The local `data` of a thread that is not working on the file.
NoData == [memories |-> {}, summary |-> 0]

\* An entry of memory.json: its id, and in rev the number of times its fields
\* (content, category, salience, last_accessed, access_count) were modified.
Entry(id, rev) == [id |-> id, rev |-> rev]

Modified(m) == [m EXCEPT !.rev = IF @ < MaxRev THEN @ + 1 ELSE @]

\* The memory.json the model starts from: two entries, no rolling summary.
InitMem ==
  /\ mem_file = [memories |-> {Entry(1, 0), Entry(2, 0)}, summary |-> 0]
  /\ mem_expected = [memories |-> {Entry(1, 0), Entry(2, 0)}, summary |-> 0]
  /\ mem_lock = NoHolder
  /\ mem_pc = [p \in {Compressor} \cup Workers |-> "idle"]
  /\ mem_op = [p \in {Compressor} \cup Workers |-> "none"]
  /\ mem_local = [p \in {Compressor} \cup Workers |-> NoData]
  /\ mem_next_id = 3

Ids(data) == {m.id : m \in data.memories}

\* `with self._lock: data = self._load_memory_json()`, the opening of every
\* read-modify-write of the MemoryManager.
LockAndLoad(p, op) ==
  /\ p \in Workers
  /\ mem_pc[p] = "idle"
  /\ mem_lock = NoHolder
  /\ mem_lock' = p
  /\ mem_local' = [mem_local EXCEPT ![p] = mem_file]
  /\ mem_pc' = [mem_pc EXCEPT ![p] = "locked"]
  /\ mem_op' = [mem_op EXCEPT ![p] = op]
  /\ UNCHANGED << mem_file, mem_expected, mem_next_id >>
  /\ UNCHANGED << runVars, gateVars, cacheVars, laterVars >>

\* _save_memory_json(data) and the end of the `with` block: `saved` is the
\* loaded copy after the operation's change, `expected` the same change made
\* to the contents a serial execution would have.
SaveAndUnlock(p, saved, expected) ==
  /\ mem_file' = saved
  /\ mem_expected' = expected
  /\ mem_lock' = NoHolder
  /\ mem_pc' = [mem_pc EXCEPT ![p] = "idle"]
  /\ mem_op' = [mem_op EXCEPT ![p] = "none"]
  /\ mem_local' = [mem_local EXCEPT ![p] = NoData]

\* The end of the `with` block on a path that does not save.
Unlock(p) ==
  /\ mem_lock' = NoHolder
  /\ mem_pc' = [mem_pc EXCEPT ![p] = "idle"]
  /\ mem_op' = [mem_op EXCEPT ![p] = "none"]
  /\ mem_local' = [mem_local EXCEPT ![p] = NoData]
  /\ UNCHANGED << mem_file, mem_expected >>

InOp(p, op) == p \in Workers /\ mem_pc[p] = "locked" /\ mem_op[p] = op

\* add_entry: a duplicate of an existing entry is returned without saving,
\* anything else is appended under a fresh id.
AddEntry(p) ==
  /\ InOp(p, "add")
  /\ \/ /\ mem_local[p].memories # {}
        /\ Unlock(p)
        /\ UNCHANGED mem_next_id
     \/ /\ mem_next_id <= MaxEntries
        /\ LET Add(d) == [d EXCEPT !.memories = @ \cup {Entry(mem_next_id, 0)}]
           IN SaveAndUnlock(p, Add(mem_local[p]), Add(mem_expected))
        /\ mem_next_id' = mem_next_id + 1
  /\ UNCHANGED << runVars, gateVars, cacheVars, laterVars >>

\* The entries of `d` with the entry `id` modified in place.
Replace(d, id) ==
  [d EXCEPT !.memories = {IF m.id = id THEN Modified(m) ELSE m : m \in @}]

\* update_entry(entry_id, content): saves when the entry is found.
UpdateEntry(p) ==
  /\ InOp(p, "update")
  /\ \E id \in 1..MaxEntries :
       IF id \in Ids(mem_local[p])
       THEN SaveAndUnlock(p, Replace(mem_local[p], id), Replace(mem_expected, id))
       ELSE Unlock(p)
  /\ UNCHANGED mem_next_id
  /\ UNCHANGED << runVars, gateVars, cacheVars, laterVars >>

\* delete_entry(entry_id): saves when an entry was removed.
DeleteEntry(p) ==
  /\ InOp(p, "delete")
  /\ \E id \in 1..MaxEntries :
       IF id \in Ids(mem_local[p])
       THEN LET Del(d) == [d EXCEPT !.memories = {m \in @ : m.id # id}]
            IN SaveAndUnlock(p, Del(mem_local[p]), Del(mem_expected))
       ELSE Unlock(p)
  /\ UNCHANGED mem_next_id
  /\ UNCHANGED << runVars, gateVars, cacheVars, laterVars >>

\* record_access(entry_id): saves when the entry is found.
RecordAccess(p) ==
  /\ InOp(p, "record_access")
  /\ \E id \in 1..MaxEntries :
       IF id \in Ids(mem_local[p])
       THEN SaveAndUnlock(p, Replace(mem_local[p], id), Replace(mem_expected, id))
       ELSE Unlock(p)
  /\ UNCHANGED mem_next_id
  /\ UNCHANGED << runVars, gateVars, cacheVars, laterVars >>

\* set_rolling_summary(summary).
SetRollingSummary(p) ==
  /\ InOp(p, "set_rolling_summary")
  /\ \E v \in 0..MaxSummary :
       LET Sum(d) == [d EXCEPT !.summary = v]
       IN SaveAndUnlock(p, Sum(mem_local[p]), Sum(mem_expected))
  /\ UNCHANGED mem_next_id
  /\ UNCHANGED << runVars, gateVars, cacheVars, laterVars >>

MemOps == {"add", "update", "delete", "record_access", "set_rolling_summary"}

\* compress_memories_stream, step 2: memory.json is loaded; with fewer than
\* two entries the compression is skipped.
CompressLoad ==
  /\ mem_pc[Compressor] = "idle"
  /\ IF Cardinality(mem_file.memories) < 2
     THEN UNCHANGED << mem_local, mem_pc >>
     ELSE /\ mem_local' = [mem_local EXCEPT ![Compressor] = mem_file]
          /\ mem_pc' = [mem_pc EXCEPT ![Compressor] = "loaded"]
  /\ UNCHANGED << mem_file, mem_expected, mem_lock, mem_op, mem_next_id >>
  /\ UNCHANGED << runVars, gateVars, cacheVars, laterVars >>

\* compress_memories_stream leaves without writing (embedding unavailable).
CompressAbandon ==
  /\ mem_pc[Compressor] = "loaded"
  /\ mem_pc' = [mem_pc EXCEPT ![Compressor] = "idle"]
  /\ mem_local' = [mem_local EXCEPT ![Compressor] = NoData]
  /\ UNCHANGED << mem_file, mem_expected, mem_lock, mem_op, mem_next_id >>
  /\ UNCHANGED << runVars, gateVars, cacheVars, laterVars >>

\* The entries compression makes of the loaded ones: the entries of the
\* cluster are replaced by one merged entry, the others are kept.
Compressed(loaded, cluster, new_id) ==
  IF cluster = {} THEN loaded
  ELSE (loaded \ cluster) \cup {Entry(new_id, 0)}

\* compress_memories_stream, step 6: under the lock, the memories of the
\* loaded data are replaced by the compressed ones and the data is saved.
CompressSave ==
  /\ mem_pc[Compressor] = "loaded"
  /\ mem_lock = NoHolder
  /\ \E cluster \in SUBSET mem_local[Compressor].memories :
       /\ Cardinality(cluster) \in {0, 2}
       /\ cluster # {} => mem_next_id <= MaxEntries
       /\ LET loaded == mem_local[Compressor].memories
              new == Compressed(loaded, cluster, mem_next_id)
          IN /\ mem_file' = [mem_local[Compressor] EXCEPT !.memories = new]
             /\ mem_expected' = [mem_expected EXCEPT !.memories = (@ \ loaded) \cup new]
       /\ mem_next_id' = IF cluster = {} THEN mem_next_id ELSE mem_next_id + 1
  /\ mem_pc' = [mem_pc EXCEPT ![Compressor] = "idle"]
  /\ mem_local' = [mem_local EXCEPT ![Compressor] = NoData]
  /\ UNCHANGED << mem_lock, mem_op >>
  /\ UNCHANGED << runVars, gateVars, cacheVars, laterVars >>

----------------------------------------------------------------------------
\* The two-tier cache behind a typed facade (cache/url_cache.py over
\* cache/memory_cache.py and cache/disk_cache.py). Time is counted in ticks.

\* urls that are cached
MaxUrls == 2
\* calls of cache_url
MaxSets == 3
\* ticks of the clock
MaxClock == 4
\* max_size of the L1 cache, in entries
L1MaxSize == 1
\* default_ttl of both tiers, in ticks
DefaultTtl == 2

Urls == 1..MaxUrls

\* None
Miss == 0

InitCache ==
  /\ clock = 0
  /\ l1 = << >>
  /\ l2 = [u \in Urls |-> [present |-> FALSE, value |-> Miss, expire_at |-> 0]]
  /\ last_set = [u \in Urls |-> [value |-> Miss, at |-> 0]]
  /\ last_get = [key |-> 0, result |-> Miss, at |-> 0, set_value |-> Miss,
                 set_at |-> 0, on_disk |-> FALSE]
  /\ next_value = 1

\* The position of `key` in the OrderedDict, 0 when absent.
L1Index(cache, key) ==
  IF \E i \in 1..Len(cache) : cache[i].key = key
  THEN CHOOSE i \in 1..Len(cache) : cache[i].key = key
  ELSE 0

L1Remove(cache, i) == SubSeq(cache, 1, i - 1) \o SubSeq(cache, i + 1, Len(cache))

\* MemoryCache.get: the value returned.
L1Get(cache, key, now) ==
  LET i == L1Index(cache, key)
  IN IF i = 0 THEN Miss
     ELSE IF now > cache[i].expire_at THEN Miss
     ELSE cache[i].value

\* MemoryCache.get: the cache it leaves (an expired entry is deleted, a hit
\* is moved to the end).
L1AfterGet(cache, key, now) ==
  LET i == L1Index(cache, key)
  IN IF i = 0 THEN cache
     ELSE IF now > cache[i].expire_at THEN L1Remove(cache, i)
     ELSE Append(L1Remove(cache, i), cache[i])

\* MemoryCache.set.
L1Set(cache, key, value, now, ttl) ==
  LET i == L1Index(cache, key)
      entry == [key |-> key, value |-> value, expire_at |-> now + ttl]
  IN IF i # 0 THEN Append(L1Remove(cache, i), entry)
     ELSE Append(IF Len(cache) >= L1MaxSize THEN Tail(cache) ELSE cache, entry)

\* DiskCache.get: the value returned.
L2Get(disk, key, now) ==
  IF ~disk[key].present THEN Miss
  ELSE IF now > disk[key].expire_at THEN Miss
  ELSE disk[key].value

\* DiskCache.get: the files it leaves (an expired file is deleted).
L2AfterGet(disk, key, now) ==
  IF disk[key].present /\ now > disk[key].expire_at
  THEN [disk EXCEPT ![key] = [present |-> FALSE, value |-> Miss, expire_at |-> 0]]
  ELSE disk

\* DiskCache.set.
L2Set(disk, key, value, now, ttl) ==
  [disk EXCEPT ![key] = [present |-> TRUE, value |-> value, expire_at |-> now + ttl]]

\* The ttl with which get_cached_url promotes an L2 hit into L1:
\* self.l1.set(cache_key, cached) takes the default.
PromotionTtl(disk, key, now) == DefaultTtl

\* time.time() advances.
Tick ==
  /\ clock < MaxClock
  /\ clock' = clock + 1
  /\ UNCHANGED << l1, l2, last_set, last_get, next_value >>
  /\ UNCHANGED << runVars, gateVars, memVars, laterVars >>

\* cache_url(url, content): stored in both tiers with the default ttl.
cache_url(url) ==
  /\ next_value <= MaxSets
  /\ l1' = L1Set(l1, url, next_value, clock, DefaultTtl)
  /\ l2' = L2Set(l2, url, next_value, clock, DefaultTtl)
  /\ last_set' = [last_set EXCEPT ![url] = [value |-> next_value, at |-> clock]]
  /\ next_value' = next_value + 1
  /\ UNCHANGED << clock, last_get >>
  /\ UNCHANGED << runVars, gateVars, memVars, laterVars >>

\* get_cached_url(url): L1, then L2 with promotion into L1.
get_cached_url(url) ==
  LET r1 == L1Get(l1, url, clock)
      l1a == L1AfterGet(l1, url, clock)
      r2 == L2Get(l2, url, clock)
      l2a == L2AfterGet(l2, url, clock)
      result == IF r1 # Miss THEN r1 ELSE r2
  IN /\ IF r1 # Miss
        THEN l1' = l1a /\ l2' = l2
        ELSE /\ l2' = l2a
             /\ l1' = IF r2 # Miss
                      THEN L1Set(l1a, url, r2, clock, PromotionTtl(l2, url, clock))
                      ELSE l1a
     /\ last_get' = [key |-> url, result |-> result, at |-> clock,
                     set_value |-> last_set[url].value, set_at |-> last_set[url].at,
                     on_disk |-> l2'[url].present]
     /\ UNCHANGED << clock, last_set, next_value >>
     /\ UNCHANGED << runVars, gateVars, memVars, laterVars >>

----------------------------------------------------------------------------
----------------------------------------------------------------------------
\* run_agent and its middleware pipeline (engine/runner.py).

\* middlewares registered with a run
MaxMiddlewares == 2
\* events the stream yields in one run
MaxEvents == 2

Middlewares == 1..MaxMiddlewares

InitMw ==
  /\ mw_pc = "start"
  /\ mw_started = 0
  /\ mw_piped = << >>
  /\ mw_outcome = "none"
  /\ mw_ended = << >>
  /\ mw_raised = "none"

\* `for mw in mws: await mw.on_run_start(ctx)`, one turn of the loop. The
\* loop stands before the try statement: an exception leaves run_agent.
OnRunStart(raises) ==
  /\ mw_pc = "start"
  /\ IF raises
     THEN /\ mw_pc' = "done"
          /\ mw_raised' = "on_run_start"
          /\ UNCHANGED mw_started
     ELSE /\ mw_started' = mw_started + 1
          /\ mw_pc' = IF mw_started + 1 = MaxMiddlewares THEN "body" ELSE "start"
          /\ UNCHANGED mw_raised
  /\ UNCHANGED << mw_piped, mw_outcome, mw_ended >>
  /\ UNCHANGED frameMw

\* _pipe: an event of the stream goes through on_event of every middleware
\* and is yielded unless one of them returned None.
PipeEvent(dropped) ==
  /\ mw_pc = "body"
  /\ Len(mw_piped) < MaxEvents
  /\ mw_piped' = Append(mw_piped, IF dropped THEN "dropped" ELSE "yielded")
  /\ UNCHANGED << mw_pc, mw_started, mw_outcome, mw_ended, mw_raised >>
  /\ UNCHANGED frameMw

\* The ways the body of the try statement ends: the stream is exhausted, an
\* exception is raised in it (logged and re-raised), or the generator is
\* cancelled or closed at a yield.
Outcomes == {"success", "exception", "cancelled"}

\* What the try statement has in flight when its finally clause starts.
InFlight(outcome) == IF outcome = "success" THEN "none" ELSE outcome

BodyEnds(outcome) ==
  /\ mw_pc = "body"
  /\ outcome \in Outcomes
  /\ mw_outcome' = outcome
  /\ mw_raised' = InFlight(outcome)
  /\ mw_pc' = "end"
  /\ UNCHANGED << mw_started, mw_piped, mw_ended >>
  /\ UNCHANGED frameMw

\* `finally: for mw in mws: await mw.on_run_end(ctx)`, one turn of the loop.
\* Nothing catches an exception of on_run_end: it leaves the loop and
\* run_agent, in place of whatever the try statement had in flight.
OnRunEnd(raises) ==
  /\ mw_pc = "end"
  /\ Len(mw_ended) < MaxMiddlewares
  /\ LET i == Len(mw_ended) + 1
     IN /\ mw_ended' = Append(mw_ended, [mw |-> i, raised |-> raises])
        /\ IF raises
           THEN /\ mw_pc' = "done"
                /\ mw_raised' = "on_run_end"
           ELSE /\ mw_pc' = IF i < MaxMiddlewares THEN "end" ELSE "done"
                /\ UNCHANGED mw_raised
  /\ UNCHANGED << mw_started, mw_piped, mw_outcome >>
  /\ UNCHANGED frameMw

NextMw ==
  \/ \E raises \in BOOLEAN : OnRunStart(raises)
  \/ \E dropped \in BOOLEAN : PipeEvent(dropped)
  \/ \E o \in Outcomes : BodyEnds(o)
  \/ \E raises \in BOOLEAN : OnRunEnd(raises)

----------------------------------------------------------------------------
\* Session reflection after a run (app.py _do_session_reflect,
\* memory/session_reflector.py).

\* decisions in one answer of the reflection LLM
MaxDecisions == 3

SessionId == "s1"

\* A decision as _parse_llm_response keeps it. The content of the decision
\* at position i of the answer is i.
Decisions ==
  { [action |-> "ADD", category |-> "procedural", target_id |-> "none"],
    [action |-> "ADD", category |-> "facts", target_id |-> "none"],
    [action |-> "UPDATE", category |-> "facts", target_id |-> "m1"],
    [action |-> "NOOP", category |-> "general", target_id |-> "none"] }

\* A Python value: a list of items or a dict.
PyList(items) == [type |-> "list", items |-> items]

\* What reflect_on_session returns: the list built by _parse_llm_response
\* (the empty list on any failure).
ReflectReturns == { PyList(s) : s \in UNION { [1..n -> Decisions] : n \in 0..MaxDecisions } }

InitReflect ==
  /\ rf_pc = "idle"
  /\ rf_results = PyList(<< >>)
  /\ rf_calls = << >>

\* The consumer loop of _stream_agent_response handling `done`: with
\* memory_session_reflect_enabled the reflection task is created.
RunDone(enabled) ==
  /\ rf_pc = "idle"
  /\ rf_pc' = IF enabled THEN "reflecting" ELSE "off"
  /\ UNCHANGED << rf_results, rf_calls >>
  /\ UNCHANGED frameReflect

\* reflect_on_session: the one LLM call returns.
ReflectOnSession(v) ==
  /\ rf_pc = "reflecting"
  /\ v \in ReflectReturns
  /\ rf_results' = v
  /\ rf_pc' = "returned"
  /\ UNCHANGED rf_calls
  /\ UNCHANGED frameReflect

\* `results and (results.get("decisions") or results.get("session_summary"))`
\* of _do_session_reflect: an empty value is falsy, .get exists on a dict
\* only.
ResultsCheck(v) ==
  IF v.items = << >> THEN "skip"
  ELSE IF v.type # "dict" THEN "AttributeError"
  ELSE "call"

\* The calls execute_reflect_results makes for the decisions from position
\* i on: add_entry for ADD, update_entry for UPDATE with a target_id.
RECURSIVE DecisionCalls(_, _, _)
DecisionCalls(items, i, sid) ==
  IF i > Len(items) THEN << >>
  ELSE LET d == items[i]
           call == IF d.action = "ADD"
                   THEN << [op |-> "add_entry", content |-> i,
                            category |-> d.category, target_id |-> "none",
                            learned_from |-> IF d.category = "procedural"
                                             THEN sid ELSE "none",
                            skip_dedup |-> TRUE] >>
                   ELSE IF d.action = "UPDATE" /\ d.target_id # "none"
                   THEN << [op |-> "update_entry", content |-> i,
                            category |-> "none", target_id |-> d.target_id,
                            learned_from |-> "none", skip_dedup |-> FALSE] >>
                   ELSE << >>
       IN call \o DecisionCalls(items, i + 1, sid)

DailyLogCall ==
  [op |-> "append_daily_log", content |-> 0, category |-> "none",
   target_id |-> "none", learned_from |-> "reflection", skip_dedup |-> FALSE]

\* execute_reflect_results: the decisions are applied in order, then one
\* reflection line is appended to the daily log when anything was applied.
ExecuteReflectResults(items, sid) ==
  LET calls == DecisionCalls(items, 1, sid)
  IN IF calls # << >> THEN Append(calls, DailyLogCall) ELSE calls

\* _do_session_reflect after `await reflect_on_session(...)`; an exception
\* is logged as a warning and ends the task.
DoSessionReflect ==
  /\ rf_pc = "returned"
  /\ LET c == ResultsCheck(rf_results)
     IN /\ rf_calls' = IF c = "call"
                       THEN rf_calls \o ExecuteReflectResults(rf_results.items, SessionId)
                       ELSE rf_calls
        /\ rf_pc' = IF c = "AttributeError" THEN "failed" ELSE "finished"
  /\ UNCHANGED rf_results
  /\ UNCHANGED frameReflect

NextReflect ==
  \/ \E enabled \in BOOLEAN : RunDone(enabled)
  \/ \E v \in ReflectReturns : ReflectOnSession(v)
  \/ DoSessionReflect

----------------------------------------------------------------------------
\* Memory consolidation (memory/consolidator.py) over the entries of the
\* store (memory/manager.py). Saliences are in tenths.

\* entries in the store at the start
MaxStored == 2
\* calls of consolidate_memory
MaxConsolidations == 2

\* `max(salience, 0.5)` of the UPDATE branch, in tenths
UpdateFloor == 5

Saliences == {3, 5, 9}

StoredIds == 1..MaxStored

\* the id generate_id gives the entry the n-th call creates
NewId(n) == MaxStored + n

\* target_id of a decision: an id an entry can have, or null
TargetIds == 0..(MaxStored + MaxConsolidations)

\* the salience of the entries at the start
InitialSalience(i) == IF i % 2 = 1 THEN 3 ELSE 9

Stored(id, content, salience) == [id |-> id, content |-> content, salience |-> salience]

InitConsol ==
  /\ cs_pc = "idle"
  /\ cs_store = { Stored(i, "old", InitialSalience(i)) : i \in StoredIds }
  /\ cs_calls = 0
  /\ cs_before = {}
  /\ cs_candidate = [content |-> "none", salience |-> 0]
  /\ cs_decision = [decision |-> "none", target_id |-> 0, merged_content |-> "none"]
  /\ cs_reply = [kind |-> "not_called", decision |-> "none", target_id |-> 0,
                 merged_content |-> "none"]

\* What the LLM call of decide_consolidation gave: it raised, or it
\* replied a JSON object naming `decision`, JSON that is no object, or text
\* that is no JSON and mentions `decision` ("ADD", "NOOP" or neither).
LlmReply(kind, decision, target, merged) ==
  [kind |-> kind, decision |-> decision, target_id |-> target, merged_content |-> merged]

NotCalled == LlmReply("not_called", "none", 0, "none")

LlmReplies ==
  { LlmReply("json", d, t, mc) :
      d \in {"ADD", "UPDATE", "DELETE", "NOOP", "MERGE"}, t \in TargetIds,
      mc \in {"none", "merged"} }
  \cup { LlmReply("text", d, 0, "none") : d \in {"ADD", "NOOP", "none"} }
  \cup { LlmReply("raised", "none", 0, "none"), LlmReply("json_no_object", "none", 0, "none") }

Decision(decision, target, merged) ==
  [decision |-> decision, target_id |-> target, merged_content |-> merged]

\* decide_consolidation: ADD without similar memories, else the decision
\* read from the reply of the LLM.
DecisionOf(similar, reply) ==
  IF ~similar THEN Decision("ADD", 0, "none")
  ELSE IF reply.kind \in {"raised", "json_no_object"} THEN Decision("ADD", 0, "none")
  ELSE IF reply.kind = "text"
  THEN IF reply.decision = "ADD" THEN Decision("ADD", 0, "none")
       ELSE Decision("NOOP", 0, "none")
  ELSE IF reply.decision \notin {"ADD", "UPDATE", "DELETE", "NOOP"}
  THEN Decision("NOOP", reply.target_id, reply.merged_content)
  ELSE Decision(reply.decision, reply.target_id, reply.merged_content)

\* consolidate_memory up to the return of decide_consolidation.
DecideConsolidation(salience, similar, reply) ==
  /\ cs_pc \in {"idle", "done"}
  /\ cs_calls < MaxConsolidations
  /\ cs_calls' = cs_calls + 1
  /\ reply.decision \in {"ADD", "NOOP"} => reply.target_id = 0 /\ reply.merged_content = "none"
  /\ reply.decision # "UPDATE" => reply.merged_content = "none"
  /\ cs_candidate' = [content |-> "new", salience |-> salience]
  /\ cs_reply' = IF similar THEN reply ELSE NotCalled
  /\ cs_decision' = DecisionOf(similar, reply)
  /\ cs_before' = cs_store
  /\ cs_pc' = "decided"
  /\ UNCHANGED cs_store
  /\ UNCHANGED frameConsol

\* `max(0.0, min(1.0, salience))`.
ClampSalience(s) == IF s < 0 THEN 0 ELSE IF s > 10 THEN 10 ELSE s

\* memory_manager.add_entry(..., skip_dedup=True) on the entries `store`.
ConsolAdd(store, content, salience) ==
  store \cup { Stored(NewId(cs_calls), content, ClampSalience(salience)) }

\* memory_manager.update_entry(entry_id, content, salience) on `store`: the
\* entry, when there is one, gets the content and the clamped salience.
ConsolUpdate(store, id, content, salience) ==
  { IF m.id = id THEN Stored(id, content, ClampSalience(salience)) ELSE m : m \in store }

\* The salience consolidate_memory passes to update_entry.
UpdateSalience(candidate, target) ==
  IF candidate.salience > UpdateFloor THEN candidate.salience ELSE UpdateFloor

\* consolidate_memory from the decision on.
ExecuteConsolidation ==
  /\ cs_pc = "decided"
  /\ LET d == cs_decision
         c == cs_candidate
         found == \E m \in cs_store : m.id = d.target_id
         final == IF d.merged_content # "none" THEN d.merged_content ELSE c.content
     IN cs_store' =
          IF d.decision = "ADD" THEN ConsolAdd(cs_store, c.content, c.salience)
          ELSE IF d.decision = "UPDATE" /\ d.target_id # 0
          THEN IF found
               THEN ConsolUpdate(cs_store, d.target_id, final,
                                 UpdateSalience(c, CHOOSE m \in cs_store : m.id = d.target_id))
               ELSE ConsolAdd(cs_store, c.content, c.salience)
          ELSE IF d.decision = "DELETE" /\ d.target_id # 0
          THEN ConsolAdd({m \in cs_store : m.id # d.target_id}, c.content, c.salience)
          ELSE cs_store
  /\ cs_pc' = "done"
  /\ UNCHANGED << cs_before, cs_candidate, cs_decision, cs_calls, cs_reply >>
  /\ UNCHANGED frameConsol

NextConsol ==
  \/ \E s \in Saliences, similar \in BOOLEAN, reply \in LlmReplies :
       DecideConsolidation(s, similar, reply)
  \/ ExecuteConsolidation

----------------------------------------------------------------------------
\* memory.json and its backup (memory/manager.py _load_memory_json,
\* _save_memory_json).

\* writes of memory.json
MaxWrites == 5

\* A file: missing, holding the JSON of a set of entries, or unparseable.
NoFile == [state |-> "missing", memories |-> {}]
JsonFile(ms) == [state |-> "ok", memories |-> ms]
CorruptFile == [state |-> "corrupt", memories |-> {}]

InitBak ==
  /\ bk_file = NoFile
  /\ bk_bak = NoFile
  /\ bk_loaded = [raised |-> FALSE, memories |-> {}]
  /\ bk_before = NoFile
  /\ bk_since = "none"
  /\ bk_writes = 0

\* _load_memory_json: the fresh empty store when the file is missing or
\* fails to parse.
LoadMemoryJson(file) ==
  [raised |-> FALSE,
   memories |-> IF file.state = "ok" THEN file.memories ELSE {}]

\* A reader of the store (get_entries, read_memory).
BakLoad ==
  /\ bk_loaded' = LoadMemoryJson(bk_file)
  /\ bk_loaded' # bk_loaded
  /\ UNCHANGED << bk_file, bk_bak, bk_before, bk_since, bk_writes >>
  /\ UNCHANGED frameBak

\* _save_memory_json, the backup: the file as it is on disk, parseable or
\* not, is copied over memory.json.bak.
BackupOnSave(file, bak) == IF file.state # "missing" THEN file ELSE bak

\* A read-modify-write of the store (add_entry, delete_entry):
\* _load_memory_json, the change, _save_memory_json. write_text does not
\* replace the file atomically: a process killed while it writes leaves an
\* unparseable memory.json, after the backup was made.
BakWrite(add, killed) ==
  /\ bk_writes < MaxWrites
  /\ bk_writes' = bk_writes + 1
  /\ LET data == LoadMemoryJson(bk_file)
         new == IF add THEN data.memories \cup {bk_writes + 1}
                ELSE data.memories \ {CHOOSE m \in data.memories : TRUE}
     IN /\ ~add => data.memories # {}
        /\ bk_loaded' = data
        /\ bk_bak' = BackupOnSave(bk_file, bk_bak)
        /\ bk_file' = IF killed THEN CorruptFile ELSE JsonFile(new)
  /\ bk_before' = IF killed /\ bk_file.state = "ok" THEN bk_file ELSE bk_before
  /\ bk_since' = IF killed THEN IF bk_file.state = "ok" THEN "corrupted" ELSE bk_since
                 ELSE IF bk_since = "corrupted" THEN "written" ELSE bk_since
  /\ UNCHANGED frameBak

NextBak ==
  \/ BakLoad
  \/ \E add \in BOOLEAN, killed \in BOOLEAN : BakWrite(add, killed)

----------------------------------------------------------------------------
\* The vector index over the memory entries (memory/search.py). memory.json
\* is known by its version, the number of mutations written to it; an index
\* is known by the version of the file it was built from. Each block of code
\* under _index_lock is one step.

\* concurrent calls of search_memories
MaxSearchers == 2
\* mutations of the store (add_entry, update_entry, delete_entry, compression)
MaxMutators == 2
\* builds made apart from those of search_memories (rebuild_memory_index)
MaxBuilds == 1

Searchers == 1..MaxSearchers
Mutators == 1..MaxMutators

\* None, for _memory_index, _memory_query_engine and the persisted index
NoIndex == -1

InitIndex ==
  /\ ix_file = 0
  /\ ix_index = NoIndex
  /\ ix_engine = NoIndex
  /\ ix_dirty = FALSE
  /\ ix_persist = NoIndex
  /\ ix_done = 0
  /\ ix_builds = 0
  /\ s_pc = [s \in Searchers |-> "idle"]
  /\ s_engine = [s \in Searchers |-> NoIndex]
  /\ s_after = [s \in Searchers |-> 0]
  /\ s_answer = [s \in Searchers |-> [kind |-> "none", version |-> NoIndex]]
  /\ m_pc = [m \in Mutators |-> "idle"]
  /\ m_version = [m \in Mutators |-> 0]

\* A mutation of the store, the write under MemoryManager._lock.
MutateWrite(m) ==
  /\ m_pc[m] = "idle"
  /\ ix_file' = ix_file + 1
  /\ m_version' = [m_version EXCEPT ![m] = ix_file + 1]
  /\ m_pc' = [m_pc EXCEPT ![m] = "written"]
  /\ UNCHANGED << ix_index, ix_engine, ix_dirty, ix_persist, ix_done, ix_builds,
                  s_pc, s_engine, s_after, s_answer >>
  /\ UNCHANGED frameIndex

\* The flag left as it is.
DirtyKept(dirty) == dirty

\* The value invalidate_memory_index gives _index_dirty.
DirtyAfterInvalidate(dirty) == TRUE

\* invalidate_memory_index, called after the lock of the store is released;
\* the mutation then returns.
MutateInvalidate(m) ==
  /\ m_pc[m] = "written"
  /\ ix_index' = NoIndex
  /\ ix_engine' = NoIndex
  /\ ix_dirty' = DirtyAfterInvalidate(ix_dirty)
  /\ ix_done' = IF m_version[m] > ix_done THEN m_version[m] ELSE ix_done
  /\ m_pc' = [m_pc EXCEPT ![m] = "returned"]
  /\ UNCHANGED << ix_file, ix_persist, ix_builds, m_version,
                  s_pc, s_engine, s_after, s_answer >>
  /\ UNCHANGED frameIndex

\* _build_or_load_memory_index_locked. `outcome` is where it ends:
\* "setup_failed" before the dirty check (the embedding model cannot be
\* made), "build_failed" when building from the documents raises, "ok".
\* The result: _memory_index, _memory_query_engine, _index_dirty, persisted.
BuildOrLoad(outcome) ==
  LET cur == [index |-> ix_index, engine |-> ix_engine, dirty |-> ix_dirty,
              persist |-> ix_persist]
      persist1 == IF ix_dirty THEN NoIndex ELSE ix_persist
      index1 == IF persist1 # NoIndex THEN persist1 ELSE ix_index
  IN IF outcome = "setup_failed" THEN cur
     ELSE IF index1 = NoIndex
     THEN IF outcome = "build_failed"
          THEN [index |-> NoIndex, engine |-> ix_engine, dirty |-> FALSE,
                persist |-> persist1]
          ELSE [index |-> ix_file, engine |-> ix_file, dirty |-> FALSE,
                persist |-> ix_file]
     ELSE [index |-> index1, engine |-> index1, dirty |-> FALSE,
           persist |-> persist1]

BuildOutcomes == {"setup_failed", "build_failed", "ok"}

SetIndex(b) ==
  /\ ix_index' = b.index
  /\ ix_engine' = b.engine
  /\ ix_dirty' = b.dirty
  /\ ix_persist' = b.persist

\* search_memories: the engine is read under the lock.
SearchStart(s) ==
  /\ s_pc[s] = "idle"
  /\ s_engine' = [s_engine EXCEPT ![s] = ix_engine]
  /\ s_after' = [s_after EXCEPT ![s] = ix_done]
  /\ s_pc' = [s_pc EXCEPT ![s] = IF ix_engine # NoIndex THEN "query" ELSE "build"]
  /\ UNCHANGED << ix_file, ix_index, ix_engine, ix_dirty, ix_persist, ix_done,
                  ix_builds, s_answer, m_pc, m_version >>
  /\ UNCHANGED frameIndex

\* search_memories without an engine: build_or_load_memory_index.
SearchBuild(s, outcome) ==
  /\ s_pc[s] = "build"
  /\ SetIndex(BuildOrLoad(outcome))
  /\ s_pc' = [s_pc EXCEPT ![s] = "refetch"]
  /\ UNCHANGED << ix_file, ix_done, ix_builds, s_engine, s_after, s_answer,
                  m_pc, m_version >>
  /\ UNCHANGED frameIndex

\* search_memories: the engine is read again under the lock.
SearchRefetch(s) ==
  /\ s_pc[s] = "refetch"
  /\ s_engine' = [s_engine EXCEPT ![s] = ix_engine]
  /\ s_pc' = [s_pc EXCEPT ![s] = "query"]
  /\ UNCHANGED << ix_file, ix_index, ix_engine, ix_dirty, ix_persist, ix_done,
                  ix_builds, s_after, s_answer, m_pc, m_version >>
  /\ UNCHANGED frameIndex

\* search_memories answers: from the engine it holds, or by keyword_search
\* over the file when it holds none or the query raises.
SearchAnswer(s, query_ok) ==
  /\ s_pc[s] = "query"
  /\ s_answer' = [s_answer EXCEPT ![s] =
                    IF s_engine[s] # NoIndex /\ query_ok
                    THEN [kind |-> "vector", version |-> s_engine[s]]
                    ELSE [kind |-> "keyword", version |-> ix_file]]
  /\ s_pc' = [s_pc EXCEPT ![s] = "done"]
  /\ UNCHANGED << ix_file, ix_index, ix_engine, ix_dirty, ix_persist, ix_done,
                  ix_builds, s_engine, s_after, m_pc, m_version >>
  /\ UNCHANGED frameIndex

\* rebuild_memory_index: the index and the persisted copy are dropped under
\* the lock, then build_or_load_memory_index runs.
RebuildClear ==
  /\ ix_builds < MaxBuilds
  /\ ix_builds' = ix_builds + 1
  /\ ix_index' = NoIndex
  /\ ix_engine' = NoIndex
  /\ ix_persist' = NoIndex
  /\ UNCHANGED << ix_file, ix_dirty, ix_done, s_pc, s_engine, s_after, s_answer,
                  m_pc, m_version >>
  /\ UNCHANGED frameIndex

RebuildBuild(outcome) ==
  /\ ix_builds > 0
  /\ ix_builds <= MaxBuilds
  /\ ix_builds' = MaxBuilds + 1
  /\ SetIndex(BuildOrLoad(outcome))
  /\ UNCHANGED << ix_file, ix_done, s_pc, s_engine, s_after, s_answer,
                  m_pc, m_version >>
  /\ UNCHANGED frameIndex

NextIndex ==
  \/ \E m \in Mutators : MutateWrite(m)
  \/ \E m \in Mutators : MutateInvalidate(m)
  \/ \E s \in Searchers : SearchStart(s)
  \/ \E s \in Searchers, o \in BuildOutcomes : SearchBuild(s, o)
  \/ \E s \in Searchers : SearchRefetch(s)
  \/ \E s \in Searchers, ok \in BOOLEAN : SearchAnswer(s, ok)
  \/ RebuildClear
  \/ \E o \in BuildOutcomes : RebuildBuild(o)

----------------------------------------------------------------------------
\* The LLM reply cache (cache/llm_cache.py) as _cached_run uses it
\* (engine/runner.py). The two tiers hold the same entries; expiry is left
\* out.

\* calls of get_or_generate
MaxCalls == 3
\* events of one reply
MaxReplyEvents == 2
\* changes of memory.json
MaxMemoryChanges == 1

Messages == {"m1", "m2"}

\* The key parameters _cached_run passes for a message.
KeyParams(msg, fp) ==
  [system_prompt |-> "sp", recent_history |-> << >>, current_message |-> msg,
   model |-> "model", temperature |-> "t", memory_fingerprint |-> fp]

\* hashlib.sha256(...).hexdigest(): equal digests for equal inputs only.
Sha256(x) == << "sha256", x >>

\* _compute_cache_key: the digest of key_structure.
ComputeCacheKey(p) ==
  Sha256([system_prompt_hash |-> Sha256(p.system_prompt),
          recent_history |-> p.recent_history,
          current_message |-> p.current_message,
          model |-> p.model,
          temperature |-> p.temperature])

CacheKeys == { ComputeCacheKey(KeyParams(m, fp)) : m \in Messages, fp \in 0..MaxMemoryChanges }

NoCall == [key |-> ComputeCacheKey(KeyParams("m1", 0)), stream |-> TRUE,
           hit |-> FALSE, pos |-> 0]

InitLlm ==
  /\ lc_store = [k \in CacheKeys |-> << >>]
  /\ lc_fp = 0
  /\ lc_pc = "idle"
  /\ lc_call = NoCall
  /\ lc_collected = << >>
  /\ lc_yielded = << >>
  /\ lc_completed = {}
  /\ lc_calls = 0

\* A mutation of the store changes the mtime of memory.json.
MemoryChange ==
  /\ lc_fp < MaxMemoryChanges
  /\ lc_fp' = lc_fp + 1
  /\ UNCHANGED << lc_store, lc_pc, lc_call, lc_collected, lc_yielded,
                  lc_completed, lc_calls >>
  /\ UNCHANGED frameLlm

\* What the consumer of get_or_generate receives in one `yield`: an event,
\* or a whole list of events.
EventItem(e) == [kind |-> "event", events |-> << e >>]
ListItem(es) == [kind |-> "list", events |-> es]

\* get_or_generate up to the lookup: a hit with stream=False yields the
\* cached list itself, a hit with stream=True goes to _simulate_stream, a
\* miss to the generator.
GetOrGenerate(msg, stream) ==
  /\ lc_pc \in {"idle", "over"}
  /\ lc_calls < MaxCalls
  /\ lc_calls' = lc_calls + 1
  /\ LET key == ComputeCacheKey(KeyParams(msg, lc_fp))
         cached == lc_store[key]
     IN /\ lc_call' = [key |-> key, stream |-> stream, hit |-> cached # << >>,
                       pos |-> 0]
        /\ lc_pc' = IF cached = << >> THEN "generating"
                    ELSE IF stream THEN "replaying" ELSE "over"
        /\ lc_yielded' = IF cached # << >> /\ ~stream
                         THEN << ListItem(cached) >> ELSE << >>
  /\ lc_collected' = << >>
  /\ UNCHANGED << lc_store, lc_fp, lc_completed >>
  /\ UNCHANGED frameLlm

\* An event of the run: what the agent says rests on the memory it read.
ReplyEvent(type) == [type |-> type, basis |-> lc_fp, cached |-> FALSE]

\* The miss path: an event of generator_func is collected and yielded.
GenerateEvent(type) ==
  /\ lc_pc = "generating"
  /\ Len(lc_collected) < MaxReplyEvents
  /\ lc_collected' = Append(lc_collected, ReplyEvent(type))
  /\ lc_yielded' = Append(lc_yielded, EventItem(ReplyEvent(type)))
  /\ UNCHANGED << lc_store, lc_fp, lc_pc, lc_call, lc_completed, lc_calls >>
  /\ UNCHANGED frameLlm

\* The miss path ends: the generator is exhausted (the collected events are
\* stored when there are any), raises, or is closed by its consumer.
GenerateEnds(how) ==
  /\ lc_pc = "generating"
  /\ how \in {"exhausted", "raised", "closed"}
  /\ lc_store' = IF how = "exhausted" /\ lc_collected # << >>
                 THEN [lc_store EXCEPT ![lc_call.key] = lc_collected]
                 ELSE lc_store
  /\ lc_completed' = IF how = "exhausted"
                     THEN lc_completed \cup {lc_collected} ELSE lc_completed
  /\ lc_pc' = "over"
  /\ UNCHANGED << lc_fp, lc_call, lc_collected, lc_yielded, lc_calls >>
  /\ UNCHANGED frameLlm

\* _simulate_stream: the next cached event is copied, tagged and yielded.
SimulateStream ==
  /\ lc_pc = "replaying"
  /\ LET cached == lc_store[lc_call.key]
         i == lc_call.pos + 1
     IN /\ lc_yielded' = Append(lc_yielded,
                                EventItem([cached[i] EXCEPT !.cached = TRUE]))
        /\ lc_call' = [lc_call EXCEPT !.pos = i]
        /\ lc_pc' = IF i = Len(cached) THEN "over" ELSE "replaying"
  /\ UNCHANGED << lc_store, lc_fp, lc_collected, lc_completed, lc_calls >>
  /\ UNCHANGED frameLlm

NextLlm ==
  \/ MemoryChange
  \/ \E m \in Messages, stream \in BOOLEAN : GetOrGenerate(m, stream)
  \/ \E t \in {"token", "done"} : GenerateEvent(t)
  \/ \E how \in {"exhausted", "raised", "closed"} : GenerateEnds(how)
  \/ SimulateStream

----------------------------------------------------------------------------
\* The system prompt and its cache (prompt_builder.py, cache/prompt_cache.py).
\* The two tiers hold the same entries.

\* writes of one file
MaxMtime == 1
\* calls of build_system_prompt
MaxPromptBuilds == 3

\* The files build_system_prompt reads: the workspace files (SOUL.md,
\* IDENTITY.md, USER.md, AGENTS.md), the SKILL.md files, memory.json and
\* the daily logs.
PromptFiles == {"workspace", "skill", "memory.json", "daily_log"}

\* _get_workspace_files_version: the mtimes of the workspace files.
GetWorkspaceFilesVersion(mtime) == [f \in {"workspace"} |-> mtime[f]]

\* PromptCache._compute_cache_key
PromptCacheKey(mtime) == << "sha256", GetWorkspaceFilesVersion(mtime) >>

PromptKeys == { PromptCacheKey([f \in PromptFiles |-> t]) : t \in 0..MaxMtime }

NoPrompt == << >>

\* The string build_system_prompt assembles: it shows the content of every
\* file, named here by the file's mtime.
FullPrompt(mtime) == << "prompt", mtime >>

InitPrompt ==
  /\ pr_mtime = [f \in PromptFiles |-> 0]
  /\ pr_cache = [k \in PromptKeys |-> NoPrompt]
  /\ pr_changed = {}
  /\ pr_last = [hit |-> FALSE, prompt |-> NoPrompt, fresh |-> NoPrompt,
                changed |-> {}]
  /\ pr_builds = 0

\* A workspace file or a SKILL.md is edited on disk.
EditFile(f) ==
  /\ f \in {"workspace", "skill"}
  /\ pr_mtime[f] < MaxMtime
  /\ pr_mtime' = [pr_mtime EXCEPT ![f] = @ + 1]
  /\ pr_changed' = pr_changed \cup {f}
  /\ UNCHANGED << pr_cache, pr_last, pr_builds >>
  /\ UNCHANGED framePrompt

\* _save_memory_json: memory.json is written and the prompt cache cleared.
SaveMemoryJson ==
  /\ pr_mtime["memory.json"] < MaxMtime
  /\ pr_mtime' = [pr_mtime EXCEPT !["memory.json"] = @ + 1]
  /\ pr_cache' = [k \in PromptKeys |-> NoPrompt]
  /\ pr_changed' = pr_changed \cup {"memory.json"}
  /\ UNCHANGED << pr_last, pr_builds >>
  /\ UNCHANGED framePrompt

\* append_daily_log: the day's log file is rewritten.
AppendDailyLog ==
  /\ pr_mtime["daily_log"] < MaxMtime
  /\ pr_mtime' = [pr_mtime EXCEPT !["daily_log"] = @ + 1]
  /\ pr_changed' = pr_changed \cup {"daily_log"}
  /\ UNCHANGED << pr_cache, pr_last, pr_builds >>
  /\ UNCHANGED framePrompt

\* The entries of the prompt cache pass their TTL.
PromptExpire ==
  /\ pr_cache # [k \in PromptKeys |-> NoPrompt]
  /\ pr_cache' = [k \in PromptKeys |-> NoPrompt]
  /\ UNCHANGED << pr_mtime, pr_changed, pr_last, pr_builds >>
  /\ UNCHANGED framePrompt

\* build_system_prompt: the cached prompt when get_cached_prompt finds one
\* under the key, else the assembled prompt, which is cached.
BuildSystemPrompt ==
  /\ pr_builds < MaxPromptBuilds
  /\ pr_builds' = pr_builds + 1
  /\ LET key == PromptCacheKey(pr_mtime)
         cached == pr_cache[key]
         hit == cached # NoPrompt
     IN /\ pr_last' = [hit |-> hit,
                       prompt |-> IF hit THEN cached ELSE FullPrompt(pr_mtime),
                       fresh |-> FullPrompt(pr_mtime),
                       changed |-> pr_changed]
        /\ pr_cache' = IF hit THEN pr_cache
                       ELSE [pr_cache EXCEPT ![key] = FullPrompt(pr_mtime)]
  /\ pr_changed' = {}
  /\ UNCHANGED pr_mtime
  /\ UNCHANGED framePrompt

NextPrompt ==
  \/ \E f \in {"workspace", "skill"} : EditFile(f)
  \/ SaveMemoryJson
  \/ AppendDailyLog
  \/ PromptExpire
  \/ BuildSystemPrompt

----------------------------------------------------------------------------
\* The ReAct loop of agent_node (engine/nodes/agent.py), one tool call per
\* LLM reply.

\* graph.nodes.agent.max_iterations
MaxIterations == 3

LlmResults == {"reply", "tool_calls", "timeout", "error"}

InitAgent ==
  /\ an_pc = "llm"
  /\ an_iterations = 0
  /\ an_new = << >>
  /\ an_outcome = "respond"
  /\ an_failed = "none"

\* The `while` test after an iteration that did not break.
LoopOrEnd(iterations) == IF iterations < MaxIterations THEN "llm" ELSE "returned"

\* One LLM call of the loop: asyncio.TimeoutError is caught and turned into
\* an error message; any other exception of ainvoke is not caught.
LlmCall(result) ==
  /\ an_pc = "llm"
  /\ an_iterations < MaxIterations
  /\ an_iterations' = an_iterations + 1
  /\ an_failed' = IF result \in {"timeout", "error"} THEN result ELSE "none"
  /\ CASE result = "timeout" ->
            /\ an_new' = Append(an_new, "[ERROR] LLM timeout")
            /\ an_outcome' = "respond"
            /\ an_pc' = "returned"
       [] result = "error" ->
            /\ an_pc' = "raised"
            /\ UNCHANGED << an_new, an_outcome >>
       [] result = "reply" ->
            /\ an_new' = Append(an_new, "ai")
            /\ an_outcome' = "respond"
            /\ an_pc' = "returned"
       [] result = "tool_calls" ->
            /\ an_new' = Append(an_new, "ai_tool_calls")
            /\ an_pc' = "tool"
            /\ UNCHANGED an_outcome
  /\ UNCHANGED frameAgent

\* result_str of a tool call.
ToolResultStr(name, result) ==
  IF name = "unknown" THEN "[ERROR] unknown tool"
  ELSE IF result = "timeout" THEN "[ERROR] tool timeout"
  ELSE IF result = "error" THEN "[ERROR] tool failed"
  ELSE "tool"

\* The tool call of the reply: its result, or the text of its failure, is
\* added as a ToolMessage; a plan_create that gave a plan ends the loop.
ToolCall(name, result) ==
  /\ an_pc = "tool"
  /\ name \in {"plan_create", "other", "unknown"}
  /\ result \in {"ok", "timeout", "error"}
  /\ name = "unknown" => result = "error"
  /\ an_new' = Append(an_new, ToolResultStr(name, result))
  /\ IF name = "plan_create" /\ result = "ok"
     THEN /\ an_outcome' = "plan_create"
          /\ an_pc' = "returned"
     ELSE /\ an_pc' = LoopOrEnd(an_iterations)
          /\ UNCHANGED an_outcome
  /\ UNCHANGED << an_iterations, an_failed >>
  /\ UNCHANGED frameAgent

NextAgent ==
  \/ \E r \in LlmResults : LlmCall(r)
  \/ \E n \in {"plan_create", "other", "unknown"}, r \in {"ok", "timeout", "error"} :
       ToolCall(n, r)

----------------------------------------------------------------------------
\* Archiving and deletion of the daily logs (memory/archiver.py).

\* daily-log files
MaxLogs == 2

Logs == 1..MaxLogs

\* The age of a file against archive_days and delete_days.
Ages == << "recent", "past_archive_days", "past_delete_days" >>

InitArch ==
  /\ ar_log = [f \in Logs |-> [exists |-> TRUE, age |-> 1, archived |-> FALSE,
                                summary |-> FALSE, failed |-> "none"]]
  /\ ar_errors = {}

\* Days pass for a file.
LogAges(f) ==
  /\ ar_log[f].exists
  /\ ar_log[f].age < Len(Ages)
  /\ ar_log' = [ar_log EXCEPT ![f].age = @ + 1]
  /\ UNCHANGED ar_errors
  /\ UNCHANGED frameArch

\* summarize_daily_log: the summary, or None when the log is short or when
\* the LLM call raised (the exception is logged).
SummarizeDailyLog(outcome) == IF outcome = "ok" THEN "summary" ELSE "None"

\* archive_daily_log on an existing file: its status and the file it
\* leaves. `summary` is how the summary LLM call went ("ok", "short",
\* "raised"), `promote` how batch_consolidate went ("nothing", "ok",
\* "raised").
ArchiveDailyLog(log, summary, promote) ==
  IF log.archived THEN [status |-> "already_archived", log |-> log]
  ELSE IF promote = "raised" THEN [status |-> "error", log |-> log]
  ELSE [status |-> "archived",
        log |-> [log EXCEPT !.archived = TRUE,
                            !.summary = (SummarizeDailyLog(summary) # "None"),
                            !.failed = IF summary = "raised" THEN "summary" ELSE "none"]]

\* cleanup_old_logs, the loop body for one file.
CleanupOldLogs(f, readable, summary, promote) ==
  /\ ar_log[f].exists
  /\ LET log == ar_log[f]
         res == ArchiveDailyLog(log, summary, promote)
     IN CASE Ages[log.age] = "past_delete_days" ->
               IF ~readable
               THEN /\ ar_errors' = ar_errors \cup {f}
                    /\ UNCHANGED ar_log
               ELSE IF ~log.archived /\ res.status = "error"
               THEN /\ ar_errors' = ar_errors \cup {f}
                    /\ UNCHANGED ar_log
               ELSE /\ ar_log' = [ar_log EXCEPT ![f] = [res.log EXCEPT !.exists = FALSE]]
                    /\ ar_errors' = ar_errors \ {f}
          [] Ages[log.age] = "past_archive_days" ->
               IF ~readable \/ res.status = "error"
               THEN /\ ar_errors' = ar_errors \cup {f}
                    /\ UNCHANGED ar_log
               ELSE /\ ar_log' = [ar_log EXCEPT ![f] = res.log]
                    /\ ar_errors' = ar_errors \ {f}
          [] OTHER -> UNCHANGED << ar_log, ar_errors >>
  /\ UNCHANGED frameArch

NextArch ==
  \/ \E f \in Logs : LogAges(f)
  \/ \E f \in Logs, readable \in BOOLEAN, summary \in {"ok", "short", "raised"},
        promote \in {"nothing", "ok", "raised"} :
       CleanupOldLogs(f, readable, summary, promote)

----------------------------------------------------------------------------
\* The rate limit of check_permission (security/rate_limiter.py,
\* security/gate.py), with security_rate_limit_enabled set and a clock that
\* does not go back.

\* max_calls of the limit of `terminal` (fetch_url allows one more)
MaxCallsLimit == 2
\* window_seconds of the limits
WindowSeconds == 2
\* the last second of the clock
MaxRateClock == 4
\* permission checks
MaxChecks == 4

\* What the rest of check_permission gives once the rate limit is passed.
RestOutcomes == {"blocked", "auto_allowed"}

RateTools == {"terminal", "fetch_url", "mcp_x"}

\* DEFAULT_LIMITS, scaled down.
Limits == [terminal |-> << MaxCallsLimit, WindowSeconds >>,
           fetch_url |-> << MaxCallsLimit + 1, WindowSeconds >>]

\* `limit_key`: the MCP tools share the key "mcp".
LimitKey(tool) == IF tool = "mcp_x" THEN "mcp" ELSE tool

InitRate ==
  /\ rl_calls = [k \in DOMAIN Limits |-> << >>]
  /\ rl_now = 0
  /\ rl_log = << >>

RateTick ==
  /\ rl_now < MaxRateClock
  /\ rl_now' = rl_now + 1
  /\ UNCHANGED << rl_calls, rl_log >>
  /\ UNCHANGED frameRate

\* `[t for t in self._calls[limit_key] if t > cutoff]`
CleanOld(calls, cutoff) == SelectSeq(calls, LAMBDA t : t > cutoff)

\* A check that passes leaves its time in the list.
CallNotRecorded(calls, now) == calls
RecordCall(calls, now) == Append(calls, now)

\* ToolRateLimiter.check: the result and the list it leaves for the key.
RateCheck(calls, key, now) ==
  IF key \notin DOMAIN Limits
  THEN [ok |-> TRUE, retry |-> 0, calls |-> calls]
  ELSE LET max_calls == Limits[key][1]
           window == Limits[key][2]
           kept == CleanOld(calls, now - window)
       IN IF Len(kept) >= max_calls
          THEN [ok |-> FALSE, retry |-> kept[1] + window - now, calls |-> kept]
          ELSE [ok |-> TRUE, retry |-> 0, calls |-> RecordCall(kept, now)]

\* check_permission for a call of `tool`: the refusal of the rate limiter
\* is returned; otherwise `outcome` is what the rest of the check gives.
CheckRateLimited(tool, outcome) ==
  /\ Len(rl_log) < MaxChecks
  /\ outcome \in RestOutcomes
  /\ LET key == LimitKey(tool)
         res == RateCheck(IF key \in DOMAIN Limits THEN rl_calls[key] ELSE << >>,
                          key, rl_now)
         final == IF res.ok THEN outcome ELSE "rate_limited"
         ret == CheckPermissionReturn(final)
     IN /\ rl_calls' = IF key \in DOMAIN Limits
                       THEN [rl_calls EXCEPT ![key] = res.calls] ELSE rl_calls
        /\ rl_log' = Append(rl_log,
                            [key |-> key, time |-> rl_now, rl_ok |-> res.ok,
                             retry |-> res.retry, outcome |-> final,
                             allowed |-> ret[1],
                             executed |-> SecuredOutcome(ret).executed])
  /\ UNCHANGED rl_now
  /\ UNCHANGED frameRate

NextRate ==
  \/ RateTick
  \/ \E tool \in RateTools, o \in RestOutcomes : CheckRateLimited(tool, o)

----------------------------------------------------------------------------
\* The decision of check_permission (security/gate.py, security/config.py).

\* audit entries and approval requests together
MaxAudit == 2

SecurityLevels == {"relaxed", "standard", "strict"}

RiskLevels == {"safe", "warn", "dangerous", "blocked"}

PermTools == {"terminal", "python_repl", "fetch_url", "read_file", "mcp_x", "memory_write"}

\* SECURITY_POLICIES
SecurityPolicies ==
  [relaxed |-> [terminal |-> "auto", python_repl |-> "auto", fetch_url |-> "auto",
                read_file |-> "auto"],
   standard |-> [terminal |-> "approve_dangerous", python_repl |-> "always_approve",
                 fetch_url |-> "auto", read_file |-> "approve_sensitive"],
   strict |-> [terminal |-> "always_approve", python_repl |-> "always_approve",
               fetch_url |-> "always_approve", read_file |-> "approve_sensitive"]]

\* get_tool_policy: the MCP tools follow terminal, the tools the matrix gives
\* AUTO at every level are not listed above.
GetToolPolicy(level, tool) ==
  IF tool = "mcp_x" THEN SecurityPolicies[level].terminal
  ELSE IF tool \in DOMAIN SecurityPolicies[level] THEN SecurityPolicies[level][tool]
  ELSE "auto"

\* The risks _classify_tool_risk can give for a tool.
ClassifyToolRisk(tool) ==
  IF tool = "mcp_x" THEN {"warn"}
  ELSE IF tool = "memory_write" THEN {"safe"}
  ELSE RiskLevels

\* _needs_approval
NeedsApproval(policy, risk) ==
  CASE policy = "auto" -> FALSE
    [] policy = "always_approve" -> TRUE
    [] policy = "approve_dangerous" -> risk \in {"dangerous", "warn"}
    [] policy = "approve_sensitive" -> risk = "dangerous"
    [] OTHER -> FALSE

\* The decision by the policy alone.
PolicyDecision(policy, risk) ==
  IF NeedsApproval(policy, risk) THEN "needs_approval" ELSE "auto_allowed"

\* check_permission past the rate limit: BLOCKED is refused before the
\* policy is looked at.
PermissionDecision(policy, risk) ==
  IF risk = "blocked" THEN "blocked" ELSE PolicyDecision(policy, risk)

NoCheck == [tool |-> "none", level |-> "none", risk |-> "none", decision |-> "none",
            audit_enabled |-> FALSE, audited |-> "none", requested |-> FALSE]

InitPerm ==
  /\ pm_level = "standard"
  /\ pm_audit_enabled = TRUE
  /\ pm_last = NoCheck
  /\ pm_audit = << >>
  /\ pm_requests = 0

\* SecurityGate.configure
Configure(level, audit_enabled) ==
  /\ pm_level' = level
  /\ pm_audit_enabled' = audit_enabled
  /\ UNCHANGED << pm_last, pm_audit, pm_requests >>
  /\ UNCHANGED framePerm

\* check_permission up to its return or to _request_approval. The risk is
\* classified only when the rate limiter lets the call pass.
CheckPermissionDecide(tool, rl_ok, risk) ==
  /\ Len(pm_audit) + pm_requests < MaxAudit
  /\ risk \in ClassifyToolRisk(tool)
  /\ LET decision == IF ~rl_ok THEN "rate_limited"
                     ELSE PermissionDecision(GetToolPolicy(pm_level, tool), risk)
         audited == IF pm_audit_enabled /\ decision # "needs_approval"
                    THEN decision ELSE "none"
     IN /\ pm_last' = [tool |-> tool, level |-> pm_level,
                       risk |-> IF rl_ok THEN risk ELSE "unclassified",
                       decision |-> decision, audit_enabled |-> pm_audit_enabled,
                       audited |-> audited,
                       requested |-> (decision = "needs_approval")]
        /\ pm_audit' = IF audited # "none"
                       THEN Append(pm_audit, [tool |-> tool, action |-> audited])
                       ELSE pm_audit
        /\ pm_requests' = IF decision = "needs_approval" THEN pm_requests + 1
                          ELSE pm_requests
  /\ UNCHANGED << pm_level, pm_audit_enabled >>
  /\ UNCHANGED framePerm

NextPerm ==
  \/ \E level \in SecurityLevels, a \in BOOLEAN : Configure(level, a)
  \/ \E tool \in PermTools, rl_ok \in BOOLEAN, risk \in RiskLevels :
       CheckPermissionDecide(tool, rl_ok, risk)

----------------------------------------------------------------------------
\* add_entry and its duplicate detection (memory/manager.py). The calls are
\* serialised by `with self._lock`, so each is one step.

\* calls of add_entry
MaxAdds == 3

\* DUPLICATE_SIMILARITY_THRESHOLD, as the fraction ThresholdNum / ThresholdDen
ThresholdNum == 7
ThresholdDen == 10

Callers == {1, 2}

\* The contents callers pass, each the sequence of its words.
Contents ==
  { << "a", "b", "c" >>, << "a", "b", "c", "d" >>, << "A", "b", "c" >>,
    << "x", "y" >>, << >> }

\* str.lower() of a word
Lower(w) == IF w = "A" THEN "a" ELSE w

\* set(text.lower().split())
WordSet(text) == { Lower(text[i]) : i \in 1..Len(text) }

\* _jaccard_similarity(a, b) >= DUPLICATE_SIMILARITY_THRESHOLD
SimilarityNever(a, b) == FALSE
JaccardAtThreshold(a, b) ==
  LET words_a == WordSet(a)
      words_b == WordSet(b)
  IN /\ words_a # {} /\ words_b # {}
     /\ ThresholdDen * Cardinality(words_a \cap words_b)
          >= ThresholdNum * Cardinality(words_a \cup words_b)

\* The loop of add_entry over `memories`: the index of the first entry that
\* equals the content or is similar to it, 0 when there is none.
FirstDuplicate(memories, content) ==
  LET hits == { i \in 1..Len(memories) :
                  \/ memories[i].content = content
                  \/ JaccardAtThreshold(memories[i].content, content) }
  IN IF hits = {} THEN 0 ELSE CHOOSE i \in hits : \A j \in hits : i <= j

InitDedup ==
  /\ dd_memories = << >>
  /\ dd_next_id = 1
  /\ dd_log = << >>

\* add_entry(content, skip_dedup) by caller p.
AddEntryDedup(p, content, skip_dedup) ==
  /\ Len(dd_log) < MaxAdds
  /\ LET dup == IF skip_dedup THEN 0 ELSE FirstDuplicate(dd_memories, content)
         after == IF dup = 0
                  THEN Append(dd_memories, [id |-> dd_next_id, content |-> content])
                  ELSE dd_memories
     IN /\ dd_memories' = after
        /\ dd_next_id' = IF dup = 0 THEN dd_next_id + 1 ELSE dd_next_id
        /\ dd_log' = Append(dd_log,
                            [caller |-> p, content |-> content, skip_dedup |-> skip_dedup,
                             returned |-> IF dup = 0 THEN dd_next_id ELSE dd_memories[dup].id,
                             before |-> dd_memories, after |-> after])
  /\ UNCHANGED frameDedup

NextDedup ==
  \E p \in Callers, content \in Contents, skip_dedup \in BOOLEAN :
    AddEntryDedup(p, content, skip_dedup)

----------------------------------------------------------------------------
\* One plan executed step by step (engine/nodes/executor.py) with the
\* events stream_graph_events yields for it (engine/stream_adapter.py).

\* steps of the plan
MaxExecSteps == 2
\* graph.nodes.executor.max_iterations
MaxExecIterations == 3

ExecPlanId == 1

InitExec ==
  /\ ex_pc = "enter"
  /\ ex_index = 0
  /\ ex_iterations = 0
  /\ ex_status = "completed"
  /\ ex_pending = << >>
  /\ ex_seen = 0
  /\ ex_out = << >>

\* An event astream_events gives while the node of the step runs.
LiveEv(type) == Ev(type, ExecPlanId, ex_index + 1, "")

\* executor_node is entered for the step current_step_index.
ExecEnter ==
  /\ ex_pc = "enter"
  /\ ex_index < MaxExecSteps
  /\ ex_pc' = "llm"
  /\ ex_iterations' = 0
  /\ ex_status' = "completed"
  /\ UNCHANGED << ex_index, ex_pending, ex_seen, ex_out >>
  /\ UNCHANGED frameExec

\* An LLM call of the step's loop: on_chat_model_start, the tokens and
\* on_chat_model_end are yielded as they come; a timeout fails the step.
ExecLlmCall(result) ==
  /\ ex_pc = "llm"
  /\ ex_iterations < MaxExecIterations
  /\ result \in {"reply", "tool_calls", "timeout", "error"}
  /\ ex_iterations' = ex_iterations + 1
  /\ ex_out' = ex_out \o
       (IF result \in {"timeout", "error"} THEN << LiveEv("llm_start") >>
        ELSE << LiveEv("llm_start"), LiveEv("token"), LiveEv("llm_end") >>)
  /\ ex_status' = IF result \in {"timeout", "error"} THEN "failed" ELSE ex_status
  /\ ex_pc' = IF result = "tool_calls" THEN "tool" ELSE "return"
  /\ UNCHANGED << ex_index, ex_pending, ex_seen >>
  /\ UNCHANGED frameExec

\* The tool call of the reply: on_tool_start and on_tool_end are yielded.
ExecToolCall ==
  /\ ex_pc = "tool"
  /\ ex_out' = ex_out \o << LiveEv("tool_start"), LiveEv("tool_end") >>
  /\ ex_pc' = IF ex_iterations < MaxExecIterations THEN "llm" ELSE "return"
  /\ UNCHANGED << ex_index, ex_iterations, ex_status, ex_pending, ex_seen >>
  /\ UNCHANGED frameExec

\* executor_node returns: its output carries the two plan_updated events
\* of the step, which the on_chain_end of the node hands to the stream.
ExecReturn ==
  /\ ex_pc = "return"
  /\ LET new == << Ev("plan_updated", ExecPlanId, ex_index + 1, "running"),
                   Ev("plan_updated", ExecPlanId, ex_index + 1, ex_status) >>
         output == Added(ex_pending, new)
     IN /\ ex_pending' = AddPending(ex_pending, new)
        /\ ex_out' = ex_out \o AdapterNew(output, ex_seen)
        /\ ex_seen' = AdapterSeen(output)
  /\ ex_index' = ex_index + 1
  /\ ex_pc' = "enter"
  /\ UNCHANGED << ex_iterations, ex_status >>
  /\ UNCHANGED frameExec

\* The graph ends after the last step: the on_chain_end of the graph
\* itself carries the pending_events of the whole thread.
ExecGraphEnd ==
  /\ ex_pc = "enter"
  /\ ex_index = MaxExecSteps
  /\ ex_out' = ex_out \o RootChainEnd(ex_pending, ex_seen)
  /\ ex_seen' = AdapterSeen(ex_pending)
  /\ ex_pc' = "end"
  /\ UNCHANGED << ex_index, ex_iterations, ex_status, ex_pending >>
  /\ UNCHANGED frameExec

NextExec ==
  \/ ExecEnter
  \/ ExecGraphEnd
  \/ \E r \in {"reply", "tool_calls", "timeout", "error"} : ExecLlmCall(r)
  \/ ExecToolCall
  \/ ExecReturn

----------------------------------------------------------------------------
\* The executor loop of one plan (engine/graph_builder.py,
\* engine/nodes/executor.py, engine/nodes/replanner.py): the supersteps
\* between the plan gate handing a plan to the executor and the route that
\* leaves for the summarizer or END, with executor.max_steps configurable.

\* steps of the plan as created by plan_create
MaxLoopSteps == 3
\* the values of executor.max_steps
MaxConfiguredSteps == 2
\* revise decisions of the replanner for the plan
MaxLoopRevisions == 1

\* nodes.replanner.enabled, nodes.replanner.skip_on_success and
\* nodes.executor.max_steps of the graph configuration.
LoopConfigs ==
  { c \in [replanner : BOOLEAN, skip_on_success : BOOLEAN,
           max_steps : 1..MaxConfiguredSteps] :
      ~c.replanner => ~c.skip_on_success }

InitLoop ==
  /\ lp_cfg = [replanner |-> TRUE, skip_on_success |-> TRUE,
               max_steps |-> MaxConfiguredSteps]
  /\ lp_plan = NoPlan
  /\ lp_index = 0
  /\ lp_past = << >>
  /\ lp_node = "idle"
  /\ lp_invocations = 0
  /\ lp_revisions = 0

\* A route of build_graph seen from the loop: the executor, the replanner,
\* or out of the loop (summarizer or END).
LoopTarget(route) ==
  IF route \in {"executor", "replanner"} THEN route ELSE "left"

\* The graph is built from the configuration, the agent's plan passes
\* plan_gate_node (current_step_index = 0) and is routed to the executor.
LoopEnter(c, n) ==
  /\ lp_node = "idle"
  /\ lp_cfg' = c
  /\ lp_plan' = MkPlan(ExecPlanId, n)
  /\ lp_index' = 0
  /\ lp_past' = << >>
  /\ lp_node' = "executor"
  /\ UNCHANGED << lp_invocations, lp_revisions >>
  /\ UNCHANGED frameLoop

\* executor_node followed by the edge out of the executor: the fixed edge
\* to the replanner, or _route_executor_no_replanner /
\* _route_executor_minimal with the configured max_steps.
LoopExecutor ==
  /\ lp_node = "executor"
  /\ lp_invocations' = lp_invocations + 1
  /\ IF ~HasPlan(lp_plan) \/ lp_index >= Len(PlanOf(lp_plan).steps)
     THEN UNCHANGED << lp_index, lp_past >>
     ELSE \E r \in StepResults :
            /\ lp_index' = lp_index + 1
            /\ lp_past' = Append(lp_past, r[2])
  /\ lp_node' = IF lp_cfg.replanner THEN "replanner"
                ELSE LoopTarget(RouteExecutorNoReplanner(lp_plan, lp_index',
                                                         lp_cfg.max_steps))
  /\ UNCHANGED << lp_cfg, lp_plan, lp_revisions >>
  /\ UNCHANGED frameLoop

\* replanner_node without an LLM call, followed by route_after_replanner.
LoopReplannerHeuristic ==
  /\ lp_node = "replanner"
  /\ LET action == IF ~HasPlan(lp_plan)
                      \/ Len(PlanOf(lp_plan).steps) - lp_index <= 0
                   THEN "finish" ELSE "continue"
     IN /\ action = "continue" =>
             ShouldSkipReplan(lp_past, lp_index, Len(PlanOf(lp_plan).steps),
                              lp_cfg.skip_on_success)
        /\ lp_node' = LoopTarget(route_after_replanner(action))
  /\ UNCHANGED << lp_cfg, lp_plan, lp_index, lp_past, lp_invocations,
                  lp_revisions >>
  /\ UNCHANGED frameLoop

\* replanner_node with the LLM evaluation, followed by
\* route_after_replanner: n is the length of revised_steps.
LoopReplannerLLM(action, n) ==
  /\ lp_node = "replanner"
  /\ HasPlan(lp_plan)
  /\ Len(PlanOf(lp_plan).steps) - lp_index > 0
  /\ ~ShouldSkipReplan(lp_past, lp_index, Len(PlanOf(lp_plan).steps),
                       lp_cfg.skip_on_success)
  /\ IF action = "revise" /\ n > 0
     THEN /\ lp_revisions < MaxLoopRevisions
          /\ lp_plan' = << [PlanOf(lp_plan) EXCEPT !.steps =
                              RevisedSteps(@, lp_index, n)] >>
          /\ lp_revisions' = lp_revisions + 1
     ELSE UNCHANGED << lp_plan, lp_revisions >>
  /\ lp_node' = LoopTarget(route_after_replanner(action))
  /\ UNCHANGED << lp_cfg, lp_index, lp_past, lp_invocations >>
  /\ UNCHANGED frameLoop

NextLoop ==
  \/ \E c \in LoopConfigs, n \in 1..MaxLoopSteps : LoopEnter(c, n)
  \/ LoopExecutor
  \/ LoopReplannerHeuristic
  \/ \E action \in {"continue", "revise", "finish"}, n \in 0..MaxSteps :
       LoopReplannerLLM(action, n)

----------------------------------------------------------------------------
\* fetch_url (tools/fetch_url_tool.py) as the agent calls it: behind the
\* wrapper of security/tool_wrapper.py, over the url cache
\* (cache/url_cache.py), its result turned into a tool_end event by
\* build_tool_end_from_raw (engine/events.py).

\* calls of fetch_url
MaxFetches == 3
\* the clock of the url cache
MaxFetchClock == 3

InitFetch ==
  /\ fu_level = "standard"
  /\ fu_l1 = << >>
  /\ fu_l2 = [u \in Urls |-> [present |-> FALSE, value |-> Miss, expire_at |-> 0]]
  /\ fu_clock = 0
  /\ fu_next = 1
  /\ fu_log = << >>

\* settings.security_level, read by wrap_all_tools when the tools are made.
FetchConfigure(level) ==
  /\ fu_log = << >>
  /\ fu_level # level
  /\ fu_level' = level
  /\ UNCHANGED << fu_l1, fu_l2, fu_clock, fu_next, fu_log >>
  /\ UNCHANGED frameFetch

FetchTick ==
  /\ fu_clock < MaxFetchClock
  /\ fu_clock' = fu_clock + 1
  /\ UNCHANGED << fu_level, fu_l1, fu_l2, fu_next, fu_log >>
  /\ UNCHANGED frameFetch

\* The string fetch_url returns: a prefix and the body behind it.
FetchOutput(prefix, body) == [prefix |-> prefix, body |-> body]

\* output_str.startswith('[CACHE_HIT]').
StartsWithCacheHit(output) == output.prefix = "[CACHE_HIT]"

\* build_tool_end_from_raw.
ToolEnd(url, output, now, stored) ==
  [type |-> "tool_end", url |-> url, cached |-> StartsWithCacheHit(output),
   output |-> output, at |-> now, stored |-> stored]

\* The tool raised: astream_events has on_tool_error and no on_tool_end, the
\* stream holds no tool_end for the call.
ToolError(url, now) ==
  [type |-> "tool_error", url |-> url, cached |-> FALSE,
   output |-> FetchOutput("", Miss), at |-> now, stored |-> FALSE]

\* wrap_all_tools: the light wrapper at level relaxed, secured_invoke
\* otherwise; secured_invoke runs the tool when the unpacking of
\* check_permission's return succeeds and the call is allowed.
WrapperRunsTool(level) ==
  \/ level = "relaxed"
  \/ SecuredOutcome(CheckPermissionReturn("auto_allowed")).executed

\* One call of fetch_url(url) by the agent; `net` is what requests.get does
\* if the tool gets that far.
FetchUrl(url, net) ==
  /\ Len(fu_log) < MaxFetches
  /\ IF ~WrapperRunsTool(fu_level)
     THEN /\ fu_log' = Append(fu_log, ToolError(url, fu_clock))
          /\ UNCHANGED << fu_l1, fu_l2, fu_next >>
     ELSE LET r1 == L1Get(fu_l1, url, fu_clock)
              l1a == L1AfterGet(fu_l1, url, fu_clock)
              r2 == L2Get(fu_l2, url, fu_clock)
              l2a == L2AfterGet(fu_l2, url, fu_clock)
              cached == IF r1 # Miss THEN r1 ELSE r2
          IN IF cached # Miss
             THEN \* "[CACHE_HIT]" + cached
                  /\ fu_l1' = IF r1 # Miss THEN l1a
                              ELSE L1Set(l1a, url, r2, fu_clock,
                                         PromotionTtl(fu_l2, url, fu_clock))
                  /\ fu_l2' = IF r1 # Miss THEN fu_l2 ELSE l2a
                  /\ fu_log' = Append(fu_log,
                       ToolEnd(url, FetchOutput("[CACHE_HIT]", cached), fu_clock, FALSE))
                  /\ UNCHANGED fu_next
             ELSE IF net = "ok"
             THEN \* the body is fetched, cached in both tiers and returned
                  /\ fu_l1' = L1Set(l1a, url, fu_next, fu_clock, DefaultTtl)
                  /\ fu_l2' = L2Set(l2a, url, fu_next, fu_clock, DefaultTtl)
                  /\ fu_log' = Append(fu_log,
                       ToolEnd(url, FetchOutput("", fu_next), fu_clock, TRUE))
                  /\ fu_next' = fu_next + 1
             ELSE \* requests raises: an error text is returned, nothing cached
                  /\ fu_l1' = l1a
                  /\ fu_l2' = l2a
                  /\ fu_log' = Append(fu_log,
                       ToolEnd(url, FetchOutput("error", Miss), fu_clock, FALSE))
                  /\ UNCHANGED fu_next
  /\ UNCHANGED << fu_level, fu_clock >>
  /\ UNCHANGED frameFetch

NextFetch ==
  \/ \E level \in {"relaxed", "standard", "strict"} : FetchConfigure(level)
  \/ FetchTick
  \/ \E url \in Urls, net \in {"ok", "error"} : FetchUrl(url, net)

----------------------------------------------------------------------------
\* DiskCache.get and DiskCache.set under disk I/O faults
\* (cache/disk_cache.py), and LLMCache.get_or_generate over them
\* (cache/llm_cache.py).

\* cache keys
MaxDiskKeys == 2
\* calls recorded
MaxDiskCalls == 3

DiskKeys == 1..MaxDiskKeys

\* What a call meets on the disk: nothing, a directory that cannot be
\* created, a file that cannot be read, a write that fails.
GetFaults == {"none", "mkdir", "read"}
SetFaults == {"none", "mkdir", "write"}

InitDisk ==
  /\ dk_files = [k \in DiskKeys |-> "absent"]
  /\ dk_log = << >>

\* The result of a cache call and the file it leaves.
DiskResult(result, file) == [result |-> result, file |-> file]

\* _get_file_path: subdir.mkdir(exist_ok=True) stands outside every try
\* statement of get, set and delete.
GetFilePathRaises(fault) == fault = "mkdir"

\* DiskCache.get. A file that cannot be read or parsed is deleted and the
\* call is a miss.
DiskGet(file, fault) ==
  IF GetFilePathRaises(fault) THEN DiskResult("raised", file)
  ELSE IF file = "absent" THEN DiskResult("miss", file)
  ELSE IF fault = "read" \/ file = "corrupt" THEN DiskResult("miss", "absent")
  ELSE DiskResult("hit", file)

\* DiskCache.set. A write that fails is logged; `torn` tells whether
\* open(file_path, "w") had truncated the file by then.
DiskSet(file, fault, torn) ==
  IF GetFilePathRaises(fault) THEN DiskResult("raised", file)
  ELSE IF fault = "write"
  THEN DiskResult("noop", IF torn THEN "corrupt" ELSE file)
  ELSE DiskResult("stored", "valid")

DiskCall(op, key, result) == [op |-> op, key |-> key, result |-> result]

\* A caller calls DiskCache.get(key).
DiskGetCall(key, fault) ==
  /\ Len(dk_log) < MaxDiskCalls
  /\ LET r == DiskGet(dk_files[key], fault)
     IN /\ dk_files' = [dk_files EXCEPT ![key] = r.file]
        /\ dk_log' = Append(dk_log, DiskCall("get", key, r.result))
  /\ UNCHANGED frameDisk

\* A caller calls DiskCache.set(key, value).
DiskSetCall(key, fault, torn) ==
  /\ Len(dk_log) < MaxDiskCalls
  /\ LET r == DiskSet(dk_files[key], fault, torn)
     IN /\ dk_files' = [dk_files EXCEPT ![key] = r.file]
        /\ dk_log' = Append(dk_log, DiskCall("set", key, r.result))
  /\ UNCHANGED frameDisk

\* get_or_generate after an L1 miss: self.l2.get(cache_key) stands outside
\* every try statement; on a miss the run is generated and _cache_response
\* stores it, swallowing what l2.set raises.
GetOrGenerateOverDisk(key, get_fault, set_fault, torn) ==
  /\ Len(dk_log) < MaxDiskCalls
  /\ LET g == DiskGet(dk_files[key], get_fault)
         s == DiskSet(g.file, set_fault, torn)
     IN IF g.result = "raised"
        THEN /\ dk_files' = [dk_files EXCEPT ![key] = g.file]
             /\ dk_log' = Append(dk_log, DiskCall("run", key, "failed"))
        ELSE IF g.result = "hit"
        THEN /\ dk_files' = [dk_files EXCEPT ![key] = g.file]
             /\ dk_log' = Append(dk_log, DiskCall("run", key, "replayed"))
        ELSE /\ dk_files' = [dk_files EXCEPT ![key] = s.file]
             /\ dk_log' = Append(dk_log, DiskCall("run", key, "generated"))
  /\ UNCHANGED frameDisk

NextDisk ==
  \/ \E key \in DiskKeys, fault \in GetFaults : DiskGetCall(key, fault)
  \/ \E key \in DiskKeys, fault \in SetFaults, torn \in BOOLEAN :
       DiskSetCall(key, fault, torn)
  \/ \E key \in DiskKeys, gf \in GetFaults, sf \in SetFaults, torn \in BOOLEAN :
       GetOrGenerateOverDisk(key, gf, sf, torn)

----------------------------------------------------------------------------
\* The SSE callback of the one SecurityGate of the process
\* (security/gate.py) as concurrent _stream_agent_response generators
\* (app.py) set and clear it.

\* requests streaming at the same time
MaxSseRuns == 2
\* approval requests raised
MaxSseRequests == 3

SseRuns == 1..MaxSseRuns

\* security_gate._sse_callback is None.
NoCallback == 0

InitSse ==
  /\ sc_callback = NoCallback
  /\ sc_active = {}
  /\ sc_streams = [r \in SseRuns |-> << >>]
  /\ sc_requests = << >>

\* _stream_agent_response starts: a fresh output_queue, and
\* security_gate.set_sse_callback(sse_approval_callback) with the closure
\* over that queue.
SseStreamStart(run) ==
  /\ run \notin sc_active
  /\ sc_active' = sc_active \cup {run}
  /\ sc_streams' = [sc_streams EXCEPT ![run] = << >>]
  /\ sc_callback' = run
  /\ UNCHANGED sc_requests
  /\ UNCHANGED frameSse

\* _stream_agent_response ends, its finally clause:
\* security_gate.set_sse_callback(None).
SseStreamEnd(run) ==
  /\ run \in sc_active
  /\ sc_active' = sc_active \ {run}
  /\ sc_callback' = NoCallback
  /\ UNCHANGED << sc_streams, sc_requests >>
  /\ UNCHANGED frameSse

\* The stream the gate's callback puts an event on, NoCallback when
\* `if self._sse_callback:` is false and nothing is sent.
DeliveredTo(callback, run) == callback

\* _request_approval for a tool call of `run`: the request is registered and
\* the approval_request event goes to the callback, if there is one.
SseRequestApproval(run) ==
  /\ run \in sc_active
  /\ Len(sc_requests) < MaxSseRequests
  /\ LET id == Len(sc_requests) + 1
         to == DeliveredTo(sc_callback, run)
     IN /\ sc_requests' = Append(sc_requests,
             [id |-> id, run |-> run, to |-> to, active |-> sc_active])
        /\ sc_streams' = IF to = NoCallback THEN sc_streams
                         ELSE [sc_streams EXCEPT ![to] = Append(@, id)]
  /\ UNCHANGED << sc_callback, sc_active >>
  /\ UNCHANGED frameSse

NextSse ==
  \/ \E run \in SseRuns : SseStreamStart(run)
  \/ \E run \in SseRuns : SseStreamEnd(run)
  \/ \E run \in SseRuns : SseRequestApproval(run)

----------------------------------------------------------------------------
\* A run that asks for a plan approval, behind the LLM reply cache:
\* _cached_run and _run_uncached (engine/runner.py), get_or_generate and
\* _simulate_stream (cache/llm_cache.py), approve_plan (app.py).

\* runs
MaxReplayRuns == 3
\* plans created
MaxReplayPlans == 2
\* POSTs to /api/plan/approve
MaxReplayPosts == 2

ReplayPlans == 1..MaxReplayPlans

\* No run waits in _wait_for_approval.
NoWaiter == 0

InitReplay ==
  /\ rp_store = [m \in Messages |-> << >>]
  /\ rp_pc = "idle"
  /\ rp_msg = "m1"
  /\ rp_out = << >>
  /\ rp_collected = << >>
  /\ rp_ctx = [p \in ReplayPlans |-> FALSE]
  /\ rp_waiting = NoWaiter
  /\ rp_queue = << >>
  /\ rp_answered = FALSE
  /\ rp_posts = << >>
  /\ rp_runs = 0
  /\ rp_plans = 0

RunEvent(type, plan) == [type |-> type, plan |-> plan, cached |-> FALSE]

\* _cached_run: get_or_generate looks the key of the message up; a hit is
\* replayed by _simulate_stream, a miss runs _run_uncached.
CachedRun(msg) ==
  /\ rp_pc \in {"idle", "over"}
  /\ rp_runs < MaxReplayRuns
  /\ rp_runs' = rp_runs + 1
  /\ rp_msg' = msg
  /\ rp_pc' = IF rp_store[msg] # << >> THEN "replaying" ELSE "generating"
  /\ rp_out' = << >>
  /\ rp_collected' = << >>
  /\ rp_queue' = << >>
  /\ UNCHANGED << rp_store, rp_ctx, rp_waiting, rp_answered, rp_posts, rp_plans >>
  /\ UNCHANGED frameReplay

\* get_or_generate, the miss path: an event of the generator is collected
\* and yielded.
Collect(events) ==
  /\ rp_collected' = rp_collected \o events
  /\ rp_out' = rp_out \o events

\* _run_uncached, the first stream ends at the approval interrupt: the
\* queue is registered under the plan_id, plan_approval_request is yielded
\* and the run waits in _wait_for_approval.
UncachedInterrupt ==
  /\ rp_pc = "generating"
  /\ rp_collected = << >>
  /\ rp_plans < MaxReplayPlans
  /\ LET pid == rp_plans + 1
     IN /\ rp_plans' = pid
        /\ rp_ctx' = [rp_ctx EXCEPT ![pid] = TRUE]
        /\ Collect(<< RunEvent("token", 0), RunEvent("plan_approval_request", pid) >>)
        /\ rp_waiting' = pid
  /\ rp_answered' = FALSE
  /\ rp_pc' = "wait"
  /\ UNCHANGED << rp_store, rp_msg, rp_queue, rp_posts, rp_runs >>
  /\ UNCHANGED frameReplay

\* _cache_response at the end of the miss path.
CacheResponse(store, msg, events) ==
  IF events # << >> THEN [store EXCEPT ![msg] = events] ELSE store

\* _wait_for_approval returns (a queued decision, or the timeout), the graph
\* is resumed, `done` is yielded, and get_or_generate stores the collected
\* events.
UncachedResume(timeout) ==
  /\ rp_pc = "wait"
  /\ IF timeout THEN rp_queue = << >> ELSE rp_queue # << >>
  /\ rp_queue' = IF timeout THEN rp_queue ELSE Tail(rp_queue)
  /\ rp_waiting' = NoWaiter
  /\ Collect(<< RunEvent("plan_approval_resolved", rp_waiting), RunEvent("done", 0) >>)
  /\ rp_store' = CacheResponse(rp_store, rp_msg, rp_collected')
  /\ rp_pc' = "over"
  /\ UNCHANGED << rp_msg, rp_ctx, rp_answered, rp_posts, rp_runs, rp_plans >>
  /\ UNCHANGED frameReplay

\* _run_uncached without an interrupt.
UncachedRespond ==
  /\ rp_pc = "generating"
  /\ rp_collected = << >>
  /\ Collect(<< RunEvent("token", 0), RunEvent("done", 0) >>)
  /\ rp_store' = CacheResponse(rp_store, rp_msg, rp_collected')
  /\ rp_pc' = "over"
  /\ UNCHANGED << rp_msg, rp_ctx, rp_waiting, rp_queue, rp_answered, rp_posts,
                  rp_runs, rp_plans >>
  /\ UNCHANGED frameReplay

\* _simulate_stream: the next cached event is copied, tagged and yielded,
\* whatever its type.
ReplayNext ==
  /\ rp_pc = "replaying"
  /\ LET cached == rp_store[rp_msg]
         i == Len(rp_out) + 1
     IN /\ rp_out' = Append(rp_out, [cached[i] EXCEPT !.cached = TRUE])
        /\ rp_answered' = IF cached[i].type = "plan_approval_request"
                          THEN FALSE ELSE rp_answered
        /\ rp_pc' = IF i = Len(cached) THEN "over" ELSE "replaying"
  /\ UNCHANGED << rp_store, rp_msg, rp_collected, rp_ctx, rp_waiting, rp_queue,
                  rp_posts, rp_runs, rp_plans >>
  /\ UNCHANGED frameReplay

\* The consumer's latest event is a plan_approval_request.
RequestShown ==
  rp_out # << >> /\ rp_out[Len(rp_out)].type = "plan_approval_request"

\* approve_plan: the queue is popped from the map and the decision put on
\* it; an unknown plan_id is answered with 404. The client answers the
\* request it is shown.
PostPlanApprove(approved) ==
  /\ RequestShown
  /\ Len(rp_posts) < MaxReplayPosts
  /\ LET pid == rp_out[Len(rp_out)].plan
         found == rp_ctx[pid]
     IN /\ rp_ctx' = [rp_ctx EXCEPT ![pid] = FALSE]
        /\ rp_queue' = IF found /\ rp_waiting = pid
                       THEN Append(rp_queue, approved) ELSE rp_queue
        /\ rp_posts' = Append(rp_posts,
             [plan |-> pid, first |-> ~rp_answered,
              result |-> IF ~found THEN "404"
                         ELSE IF rp_waiting = pid THEN "delivered" ELSE "lost"])
  /\ rp_answered' = TRUE
  /\ UNCHANGED << rp_store, rp_pc, rp_msg, rp_out, rp_collected, rp_waiting,
                  rp_runs, rp_plans >>
  /\ UNCHANGED frameReplay

NextReplay ==
  \/ \E msg \in Messages : CachedRun(msg)
  \/ UncachedInterrupt
  \/ \E timeout \in BOOLEAN : UncachedResume(timeout)
  \/ UncachedRespond
  \/ ReplayNext
  \/ \E approved \in BOOLEAN : PostPlanApprove(approved)

----------------------------------------------------------------------------
\* The tool calls of agent_node (engine/nodes/agent.py): a reply of the LLM
\* may carry several tool calls, handled in order by the `for` loop.

\* iterations of the loop
MaxCallIterations == 2
\* tool calls in one reply
MaxCallsPerReply == 2

ToolNames == {"plan_create", "other"}

\* The tool_calls lists of a reply, by tool name.
ReplyCalls ==
  UNION { [1..n -> ToolNames] : n \in 0..MaxCallsPerReply }

InitCalls ==
  /\ tc_pc = "llm"
  /\ tc_iterations = 0
  /\ tc_msgs = << >>
  /\ tc_todo = << >>
  /\ tc_outcome = "respond"

\* The tool calls of a reply, each with its id.
WithIds(names, iteration) ==
  [i \in 1..Len(names) |-> [id |-> << iteration, i >>, name |-> names[i]]]

AiMessage(calls) == [role |-> "ai", tool_calls |-> calls, tool_call_id |-> << >>]

ToolMessage(call_id) == [role |-> "tool", tool_calls |-> << >>, tool_call_id |-> call_id]

\* One LLM call of the loop: the reply is appended; without tool calls the
\* loop ends with outcome respond.
CallsLlmReply(names) ==
  /\ tc_pc = "llm"
  /\ tc_iterations < MaxCallIterations
  /\ tc_iterations' = tc_iterations + 1
  /\ LET calls == WithIds(names, tc_iterations + 1)
     IN /\ tc_msgs' = Append(tc_msgs, AiMessage(calls))
        /\ tc_todo' = calls
        /\ tc_pc' = IF calls = << >> THEN "returned" ELSE "tools"
  /\ tc_outcome' = "respond"
  /\ UNCHANGED frameCalls

\* What the `for` loop has left after a tool call: nothing after the
\* `break` of a plan_create that gave a plan.
RestAfter(todo, broke) == IF broke THEN << >> ELSE Tail(todo)

\* One turn of `for tool_call in response.tool_calls`: the ToolMessage of
\* the call is appended; a plan_create that gave a plan breaks out of the
\* `for` loop and of the `while` loop.
CallsToolCall(ok) ==
  /\ tc_pc = "tools"
  /\ LET call == Head(tc_todo)
         broke == call.name = "plan_create" /\ ok
         rest == RestAfter(tc_todo, broke)
     IN /\ tc_msgs' = Append(tc_msgs, ToolMessage(call.id))
        /\ tc_todo' = rest
        /\ tc_outcome' = IF broke THEN "plan_create" ELSE tc_outcome
        /\ tc_pc' = IF broke THEN "returned"
                    ELSE IF rest # << >> THEN "tools"
                    ELSE IF tc_iterations < MaxCallIterations THEN "llm"
                    ELSE "returned"
  /\ UNCHANGED tc_iterations
  /\ UNCHANGED frameCalls

NextCalls ==
  \/ \E names \in ReplyCalls : CallsLlmReply(names)
  \/ \E ok \in BOOLEAN : CallsToolCall(ok)

----------------------------------------------------------------------------
\* python_repl (tools/python_repl_tool.py): _execute_code runs in a worker
\* thread of the server process and switches the process's working
\* directory and sys.stdout for the time of the execution.

\* sessions
MaxReplSessions == 2
\* executions started
MaxReplExecs == 3

ReplSessions == 1..MaxReplSessions

\* The server's own working directory and the tmp directory of a session.
ServerDir == [kind |-> "server", session |-> 0]
TmpDir(s) == [kind |-> "tmp", session |-> s]

\* The server's own sys.stdout and the StringIO of a session's execution.
RealStdout == [kind |-> "real", session |-> 0]
Buffer(s) == [kind |-> "buffer", session |-> s]

NoExec == [pc |-> "idle", old_cwd |-> ServerDir, old_stdout |-> RealStdout]

InitRepl ==
  /\ py_cwd = ServerDir
  /\ py_stdout = RealStdout
  /\ py_exec = [s \in ReplSessions |-> NoExec]
  /\ py_log = {}
  /\ py_count = 0

\* python_repl of session s submits _execute_code to its worker thread,
\* which runs up to exec(): the session id comes with the copied context,
\* os.chdir and the sys.stdout assignment act on the process. The caller
\* blocks in future.result(), so no other call is between its start and
\* its return or timeout.
ReplStart(s) ==
  /\ py_exec[s].pc \in {"idle", "done"}
  /\ \A t \in ReplSessions : py_exec[t].pc # "running"
  /\ py_count < MaxReplExecs
  /\ py_count' = py_count + 1
  /\ py_exec' = [py_exec EXCEPT ![s] =
                   [pc |-> "running", old_cwd |-> py_cwd, old_stdout |-> py_stdout]]
  /\ py_cwd' = TmpDir(s)
  /\ py_stdout' = Buffer(s)
  /\ UNCHANGED py_log
  /\ UNCHANGED frameRepl

\* The code of session s opens a relative path and prints: it meets the
\* process's working directory and sys.stdout of that moment.
ReplRuns(s) ==
  /\ py_exec[s].pc \in {"running", "abandoned"}
  /\ py_log' = py_log \cup
       {[session |-> s, cwd |-> py_cwd, stdout |-> py_stdout,
         overlap |-> \E t \in ReplSessions \ {s} :
                        py_exec[t].pc \in {"running", "abandoned"}]}
  /\ UNCHANGED << py_cwd, py_stdout, py_exec, py_count >>
  /\ UNCHANGED frameRepl

\* future.result(timeout=EXEC_TIMEOUT) raises: python_repl returns the
\* timeout error, executor.shutdown(wait=False) leaves the thread running.
ReplTimeout(s) ==
  /\ py_exec[s].pc = "running"
  /\ py_exec' = [py_exec EXCEPT ![s].pc = "abandoned"]
  /\ UNCHANGED << py_cwd, py_stdout, py_log, py_count >>
  /\ UNCHANGED frameRepl

\* _execute_code ends, its finally clause: sys.stdout = old_stdout,
\* os.chdir(old_cwd).
ReplEnds(s) ==
  /\ py_exec[s].pc \in {"running", "abandoned"}
  /\ py_stdout' = py_exec[s].old_stdout
  /\ py_cwd' = py_exec[s].old_cwd
  /\ py_exec' = [py_exec EXCEPT ![s].pc = "done"]
  /\ UNCHANGED << py_log, py_count >>
  /\ UNCHANGED frameRepl

NextRepl ==
  \/ \E s \in ReplSessions : ReplStart(s)
  \/ \E s \in ReplSessions : ReplRuns(s)
  \/ \E s \in ReplSessions : ReplTimeout(s)
  \/ \E s \in ReplSessions : ReplEnds(s)

----------------------------------------------------------------------------
\* compress_memories_stream over entries with categories
\* (memory/compressor.py). An entry is its id, its category and the ids in
\* context.merged_from; MemoryEntry.from_dict and to_dict (memory/models.py)
\* keep the three as stored.

\* ids ever given to entries, merged ones included
MaxStreamIds == 4
\* entries memory.json holds when a compression starts
MaxStreamEntries == 3

\* Two of the six categories of VALID_CATEGORIES, and one that is not among
\* them.
VALID_CATEGORIES == {"facts", "general"}
StoredCategories == VALID_CATEGORIES \cup {"projects"}

CatEntry(id, category, merged_from) ==
  [id |-> id, category |-> category, merged_from |-> merged_from]

NoStreamResult == [status |-> "none", before |-> {}, after |-> {}]

InitStream ==
  /\ cmp_file = {}
  /\ cmp_pc = "idle"
  /\ cmp_loaded = {}
  /\ cmp_new = {}
  /\ cmp_todo = {}
  /\ cmp_next_id = 1
  /\ cmp_result = NoStreamResult

\* add_entry(content, category, ...): a category outside VALID_CATEGORIES
\* becomes "general".
AddWithCategory(category) ==
  /\ cmp_next_id <= MaxStreamIds
  /\ Cardinality(cmp_file) < MaxStreamEntries
  /\ LET stored == IF category \in VALID_CATEGORIES THEN category ELSE "general"
     IN cmp_file' = cmp_file \cup {CatEntry(cmp_next_id, stored, {})}
  /\ cmp_next_id' = cmp_next_id + 1
  /\ UNCHANGED << cmp_pc, cmp_loaded, cmp_new, cmp_todo, cmp_result >>
  /\ UNCHANGED frameStream

\* memory.json as _load_memory_json finds it holds an entry that add_entry
\* did not write (the file was edited, or written by another version): the
\* file is read as it is, the category is not looked at.
FoundOnDisk(category) ==
  /\ cmp_pc = "idle"
  /\ cmp_next_id <= MaxStreamIds
  /\ Cardinality(cmp_file) < MaxStreamEntries
  /\ cmp_file' = cmp_file \cup {CatEntry(cmp_next_id, category, {})}
  /\ cmp_next_id' = cmp_next_id + 1
  /\ UNCHANGED << cmp_pc, cmp_loaded, cmp_new, cmp_todo, cmp_result >>
  /\ UNCHANGED frameStream

\* Steps 1 and 2: the file is loaded; fewer than two entries end the
\* compression with status skip.
StreamLoad ==
  /\ cmp_pc = "idle"
  /\ IF Cardinality(cmp_file) < 2
     THEN /\ cmp_result' = [status |-> "skip", before |-> cmp_file, after |-> cmp_file]
          /\ UNCHANGED << cmp_pc, cmp_loaded >>
     ELSE /\ cmp_loaded' = cmp_file
          /\ cmp_pc' = "loaded"
          /\ cmp_result' = NoStreamResult
  /\ UNCHANGED << cmp_file, cmp_new, cmp_todo, cmp_next_id >>
  /\ UNCHANGED frameStream

\* by_category[category] of step 3.
ByCategory(memories, category) == {m \in memories : m.category = category}

\* categories_to_process: the categories of VALID_CATEGORIES that have
\* entries; the entries the loop of step 4 goes through.
Processed(memories) ==
  UNION {ByCategory(memories, category) : category \in VALID_CATEGORIES}

\* What _cluster_by_similarity can return over the categories: its
\* union-find splits the entries of one category into disjoint clusters
\* that cover them, whatever the similarities are.
Clusterings(entries) ==
  {P \in SUBSET (SUBSET entries \ {{}}) :
     /\ UNION P = entries
     /\ \A a, b \in P : a # b => a \cap b = {}
     /\ \A c \in P : \A x, y \in c : x.category = y.category}

\* Step 4: per category of categories_to_process, a single entry and the
\* clusters of one entry go to new_memories, the larger clusters to
\* clusters_to_merge.
StreamCluster ==
  /\ cmp_pc = "loaded"
  /\ \E clusters \in Clusterings(Processed(cmp_loaded)) :
       /\ cmp_new' = UNION {c \in clusters : Cardinality(c) = 1}
       /\ cmp_todo' = {c \in clusters : Cardinality(c) > 1}
  /\ cmp_pc' = "clustered"
  /\ UNCHANGED << cmp_file, cmp_loaded, cmp_next_id, cmp_result >>
  /\ UNCHANGED frameStream

\* Step 4.1 with the embedding model unavailable, in a category of two or
\* more entries: the result is embedding_unavailable, nothing is written.
StreamEmbeddingUnavailable ==
  /\ cmp_pc = "loaded"
  /\ \E category \in VALID_CATEGORIES :
       Cardinality(ByCategory(cmp_loaded, category)) > 1
  /\ cmp_result' = [status |-> "embedding_unavailable",
                    before |-> cmp_loaded, after |-> cmp_file]
  /\ cmp_pc' = "idle"
  /\ cmp_loaded' = {}
  /\ UNCHANGED << cmp_file, cmp_new, cmp_todo, cmp_next_id >>
  /\ UNCHANGED frameStream

\* _merge_cluster(cluster, category): a new entry of the cluster's
\* category with context.merged_from the ids of the cluster.
MergeCluster(cluster, new_id) ==
  CatEntry(new_id, (CHOOSE e \in cluster : TRUE).category, {e.id : e \in cluster})

\* Step 5, one turn of the loop over clusters_to_merge.
StreamMerge ==
  /\ cmp_pc = "clustered"
  /\ cmp_next_id <= MaxStreamIds
  /\ \E cluster \in cmp_todo :
       /\ cmp_new' = cmp_new \cup {MergeCluster(cluster, cmp_next_id)}
       /\ cmp_todo' = cmp_todo \ {cluster}
  /\ cmp_next_id' = cmp_next_id + 1
  /\ UNCHANGED << cmp_file, cmp_pc, cmp_loaded, cmp_result >>
  /\ UNCHANGED frameStream

\* Step 6: data["memories"] becomes new_memories and is saved; the result
\* has status ok.
StreamSave ==
  /\ cmp_pc = "clustered"
  /\ cmp_todo = {}
  /\ cmp_file' = cmp_new
  /\ cmp_result' = [status |-> "ok", before |-> cmp_loaded, after |-> cmp_new]
  /\ cmp_pc' = "idle"
  /\ cmp_loaded' = {}
  /\ cmp_new' = {}
  /\ UNCHANGED << cmp_todo, cmp_next_id >>
  /\ UNCHANGED frameStream

NextStream ==
  \/ \E category \in StoredCategories : AddWithCategory(category)
  \/ \E category \in StoredCategories : FoundOnDisk(category)
  \/ StreamLoad
  \/ StreamCluster
  \/ StreamEmbeddingUnavailable
  \/ StreamMerge
  \/ StreamSave

\* The initial state of the sub-systems other than the four first ones.
InitLater == InitTool /\ InitMw /\ InitReflect /\ InitConsol /\ InitBak /\ InitIndex /\ InitLlm /\ InitPrompt /\ InitAgent /\ InitArch /\ InitRate /\ InitPerm /\ InitDedup /\ InitExec /\ InitLoop /\ InitFetch /\ InitDisk /\ InitSse /\ InitReplay /\ InitCalls /\ InitRepl /\ InitStream

vars == << runVars, gateVars, memVars, cacheVars, laterVars >>

NextRun ==
  \/ StartRun
  \/ AgentRespond
  \/ AgentPlanCreate
  \/ AgentRaises
  \/ PlanGateNode
  \/ ApprovalInterrupt
  \/ ApprovalResolve
  \/ ExecutorNode
  \/ ReplannerHeuristic
  \/ ReplannerLLM
  \/ SummarizerNode
  \/ StreamEnd
  \/ CheckInterrupt
  \/ WaitDecision
  \/ WaitTimeout
  \/ ApprovePlan
  \/ EmitDone
  \/ ConsumerFinally
  \/ CancelRun

InitOfRun == InitRun /\ InitGate /\ InitMem /\ InitCache /\ InitLater

SpecRun == InitOfRun /\ [][NextRun]_vars

\* The steps the event loop takes by itself once a run is started: every one
\* but the arrival of a request, of a decision or of a disconnect.
RunProgress ==
  \/ AgentRespond
  \/ AgentPlanCreate
  \/ AgentRaises
  \/ PlanGateNode
  \/ ApprovalInterrupt
  \/ ApprovalResolve
  \/ ExecutorNode
  \/ ReplannerHeuristic
  \/ ReplannerLLM
  \/ SummarizerNode
  \/ StreamEnd
  \/ CheckInterrupt
  \/ WaitDecision
  \/ WaitTimeout
  \/ EmitDone

\* The event loop keeps scheduling a run that can take a step, and the
\* approval wait is bounded by its timeout.
SpecRunFair == SpecRun /\ WF_vars(RunProgress)

NextGate ==
  \/ \E r \in RequestIds : RequestApproval(r)
  \/ \E r \in RequestIds, approved \in BOOLEAN : ResolveApproval(r, approved)
  \/ \E r \in RequestIds : CallerResume(r)
  \/ \E r \in RequestIds : CallerTimeout(r)
  \/ \E r \in RequestIds, o \in DirectOutcomes : CheckPermission(r, o)
  \/ \E r \in RequestIds : SecuredInvoke(r)
  \/ \E r \in RequestIds, approved \in BOOLEAN,
        action \in {"none", "approve", "deny", "instruct"}, f \in Feedbacks :
       ApproveTool(r, approved, action, f)

InitOfGate == InitRunWith(DefaultConfig) /\ InitGate /\ InitMem /\ InitCache /\ InitLater

SpecGate == InitOfGate /\ [][NextGate]_vars

NextMem ==
  \/ \E p \in Workers, op \in MemOps : LockAndLoad(p, op)
  \/ \E p \in Workers : AddEntry(p)
  \/ \E p \in Workers : UpdateEntry(p)
  \/ \E p \in Workers : DeleteEntry(p)
  \/ \E p \in Workers : RecordAccess(p)
  \/ \E p \in Workers : SetRollingSummary(p)
  \/ CompressLoad
  \/ CompressAbandon
  \/ CompressSave

InitOfMem == InitRunWith(DefaultConfig) /\ InitGate /\ InitMem /\ InitCache /\ InitLater

SpecMem == InitOfMem /\ [][NextMem]_vars

NextCache ==
  \/ Tick
  \/ \E url \in Urls : cache_url(url)
  \/ \E url \in Urls : get_cached_url(url)

InitOfCache == InitRunWith(DefaultConfig) /\ InitGate /\ InitMem /\ InitCache /\ InitLater

SpecCache == InitOfCache /\ [][NextCache]_vars

----------------------------------------------------------------------------
\* Properties of the run sub-system (checked under SpecRun).

Last(seq) == seq[Len(seq)]

RunActive == pc \in {"stream1", "check", "wait", "stream2", "emit_done"}

\* The pump has pushed its end-of-stream sentinel.
StreamTerminated == pc \in {"closed", "ended"}

SideEmitted == SelectSeq(out, IsSide)

AppendedThisRun == SubSeq(pending_events, pendingAtRunStart + 1, Len(pending_events))

HasRejection == \E i \in 1..Len(messages) : messages[i].kind = "plan_rejected"

EndsDoneOrError == out # << >> /\ Last(out).type \in {"done", "error"}

C3_SideEventsExactlyOnce ==
  (RunActive \/ StreamTerminated) => SideEmitted = AppendedThisRun

\* C3 in a run that closed its stream with `done`: a plan_updated(running)
\* the executor appended is not in the stream.
C3_Witness ==
  /\ pc = "closed" /\ Last(out).type = "done"
  /\ \E i \in (pendingAtRunStart + 1)..Len(pending_events) :
       /\ pending_events[i].status = "running"
       /\ \A j \in 1..Len(out) : out[j] # pending_events[i]

\* C4: len(past_steps) = current_step_index in every state of the thread.
C4_PastStepsMatchIndex == Len(past_steps) = current_step_index

\* C4 with no run ever cancelled: the second run starts with the steps of the
\* first run's plan still in past_steps.
C4_Witness ==
  /\ ~everCancelled /\ runNo = 2 /\ pc = "stream1"
  /\ current_step_index = 0 /\ past_steps # << >>

\* C5: no state has plan_data null with a non-zero current_step_index or a
\* non-empty past_steps.
C5_NoPlanMeansReset ==
  ~HasPlan(plan_data) => current_step_index = 0 /\ past_steps = << >>

\* C5 with no run ever cancelled: the denial of a plan has set plan_data to
\* null and past_steps is not empty.
C5_Witness ==
  /\ ~everCancelled /\ pc = "stream2"
  /\ ~HasPlan(plan_data) /\ past_steps # << >>
  /\ \E p \in PlanIds : interruptRun[p] = runNo /\ decisionOf[p] = "denied"

\* pending_events[i] is the final plan_updated the executor appended for a
\* step: it follows the plan_updated(running) of that step.
ExecutorFinal(i) ==
  /\ i > 1
  /\ pending_events[i].type = "plan_updated"
  /\ pending_events[i].status \in {"completed", "failed"}
  /\ pending_events[i - 1].type = "plan_updated"
  /\ pending_events[i - 1].status = "running"
  /\ pending_events[i - 1].plan = pending_events[i].plan
  /\ pending_events[i - 1].step = pending_events[i].step

\* C34: the summarizer reports as completed only steps that were never
\* executed: no plan_updated(completed) follows the executor's
\* plan_updated(completed or failed) of the same step.
C34_SummarizerOnlyPendingSteps ==
  \A i, j \in 1..Len(pending_events) :
    (/\ i < j
     /\ ExecutorFinal(i)
     /\ pending_events[j].type = "plan_updated"
     /\ pending_events[j].plan = pending_events[i].plan
     /\ pending_events[j].step = pending_events[i].step)
    => pending_events[j].status # "completed"

\* C34 with the summarizer over for a plan of which the executor ran a
\* step that failed.
C34_Witness ==
  /\ \E k \in 1..Len(messages) : messages[k].kind = "summary"
  /\ \E i \in 1..Len(pending_events) :
       ExecutorFinal(i) /\ pending_events[i].status = "failed"

\* C8: every approval interrupt is resumed exactly once: never more than once,
\* and by the time the run that raised it has closed its stream, once.
C8_ResumedExactlyOnce ==
  \A p \in PlanIds :
    /\ resumeCount[p] <= 1
    /\ (StreamTerminated /\ interruptRun[p] = runNo) => resumeCount[p] = 1

\* C8 in a run that closed its stream with `done`: the graph is suspended at
\* an interrupt the run raised and never resumed.
C8_Witness ==
  /\ pc = "closed" /\ Last(out).type = "done" /\ suspended
  /\ \E p \in PlanIds : interruptRun[p] = runNo /\ resumeCount[p] = 0

\* The run has sent plan_approval_request for plan p.
ApprovalRequested(p) ==
  \E i \in 1..Len(out) :
    out[i].type = "plan_approval_request" /\ out[i].plan = p

\* C35: when a run has emitted `done`, the graph of the thread is not
\* suspended at an approval interrupt, and every interrupt the run reached
\* was surfaced as a plan_approval_request.
C35_NoDoneWhileSuspended ==
  (StreamTerminated /\ out # << >> /\ Last(out).type = "done") =>
    /\ ~suspended
    /\ \A p \in PlanIds : interruptRun[p] = runNo => ApprovalRequested(p)

\* C35 in a run that emitted `done` after two interrupts, the first of them
\* resumed with a denial.
C35_Witness ==
  /\ pc = "closed" /\ Last(out).type = "done"
  /\ \E p, q \in PlanIds :
       /\ p # q
       /\ interruptRun[p] = runNo /\ interruptRun[q] = runNo
       /\ resumeCount[p] = 1 /\ decisionOf[p] \in {"denied", "timeout"}

\* C9: when a run has ended, for whatever reason, its pump is cancelled and no
\* approval queue it registered is left in the plan_id map.
C9_NoQueueLeftRegistered ==
  pc \in {"ended", "cancelled"} =>
    /\ pump_cancelled
    /\ \A p \in PlanIds : plan_ctx[p] # runNo

\* C9 in a run that ended by itself after the approval wait timed out: its
\* queue is still registered.
C9_Witness ==
  /\ pc = "ended" /\ pump_cancelled
  /\ \E p \in PlanIds : decisionOf[p] = "timeout" /\ plan_ctx[p] = runNo

\* C10: a plan whose approval was resolved with approved = false is never
\* executed, and when the run that asked closes its stream the rejection
\* message is in messages and the stream ends with `done`.
C10_DeniedPlanNotExecuted ==
  \A p \in PlanIds :
    decisionOf[p] = "denied" =>
      /\ resumeCount[p] = 1
      /\ p \notin enteredFor
      /\ (StreamTerminated /\ interruptRun[p] = runNo) =>
           HasRejection /\ Last(out).type = "done"

\* C10 witness: a run closed after the user denied its plan.
C10_Witness ==
  /\ pc = "closed"
  /\ \E p \in PlanIds :
       /\ interruptRun[p] = runNo /\ decisionOf[p] = "denied"
       /\ posts[p] >= 1 /\ p \notin enteredFor
  /\ HasRejection
  /\ Last(out).type = "done"

----------------------------------------------------------------------------
\* Properties of the tool-approval gate (checked under SpecGate).

\* C1: of the calls of resolve_approval with one request_id every call after
\* the first returns false, and the caller suspended in check_permission gets
\* the decision of the first call, also when a second call arrives before the
\* caller has resumed.
C1_FirstResolveWins ==
  \A r \in RequestIds :
    /\ \A i \in 2..Len(resolve_log[r]) : ~resolve_log[r][i].returned
    /\ gate_result[r] \in {"approved", "denied"} =>
         /\ resolve_log[r] # << >>
         /\ gate_result[r] = IF resolve_log[r][1].approved THEN "approved" ELSE "denied"

\* C1 with a second call made before the caller resumed: it returned true
\* and the caller got its decision, not the first one.
C1_Witness ==
  \E r \in RequestIds :
    /\ Len(resolve_log[r]) = 2
    /\ resolve_log[r][1].approved /\ ~resolve_log[r][2].approved
    /\ resolve_log[r][2].returned
    /\ gate_result[r] = "denied"

\* The outcomes of check_permission that refuse the call.
Refusals == {"blocked", "denied", "rate_limited", "timeout"}

\* C11: a wrapped tool invocation whose permission check ended in blocked,
\* user-denied, rate-limited or approval-timeout has, once it is over,
\* returned a denial string and not raised, and the tool was not executed.
C11_DenialIsStringResult ==
  \A r \in RequestIds :
    (gate_result[r] \in Refusals /\ tool_pc[r] # "idle") =>
      /\ tool_pc[r] = "returned"
      /\ tool_result[r].kind = "denied"
      /\ ~tool_executed[r]

\* C11 with a user denial and a timeout both behind: the invocations are
\* over, one refused by the user and one by the timeout.
C11_Witness ==
  \E r, q \in RequestIds :
    /\ gate_result[r] = "denied" /\ tool_pc[r] # "idle"
    /\ gate_result[q] = "timeout" /\ tool_pc[q] # "idle"

\* The POSTs to /api/approve made for r with action=instruct while r was
\* pending.
InstructPosts(r) ==
  {i \in 1..Len(approve_log[r]) :
     approve_log[r][i].post.action = "instruct" /\ approve_log[r][i].post.pending}

\* C12: when a pending approval was answered with action=instruct and
\* feedback F, the invocation, once over, has not executed the tool and has
\* returned the reconsider message carrying F.
C12_InstructReturnsFeedback ==
  \A r \in RequestIds :
    (InstructPosts(r) # {} /\ tool_pc[r] # "idle") =>
      \E i \in InstructPosts(r) :
        /\ tool_pc[r] = "returned"
        /\ ~tool_executed[r]
        /\ tool_result[r] = [kind |-> "reconsider",
                             reason |-> [instruct |-> TRUE,
                                         text |-> approve_log[r][i].post.feedback]]

\* C12 with an instruct answer posted for a pending request and the
\* invocation over.
C12_Witness ==
  \E r \in RequestIds :
    /\ InstructPosts(r) # {}
    /\ tool_pc[r] # "idle"
    /\ gate_result[r] = "timeout"

\* C25: a request whose wait timed out is denied and no longer pending, its
\* tool is not executed, and every resolve_approval for it returns false
\* and leaves its approval record and its result as they were.
C25_TimeoutIsFinal ==
  \A r \in RequestIds :
    gate_result[r] = "timeout" =>
      /\ gate_caller[r] = "returned"
      /\ r \notin gate_pending
      /\ ~CheckPermissionReturn(gate_result[r])[1]
      /\ ~tool_executed[r]
      /\ gate_approval[r] = [approved |-> "none", event |-> FALSE]
      /\ \A i \in 1..Len(resolve_log[r]) : ~resolve_log[r][i].returned

\* C25 with a request that timed out and was resolved afterwards, its tool
\* wrapper having gone on.
C25_Witness ==
  \E r \in RequestIds :
    /\ gate_result[r] = "timeout"
    /\ Len(resolve_log[r]) = MaxResolves
    /\ resolve_log[r][1].approved
    /\ tool_pc[r] # "idle"

----------------------------------------------------------------------------
\* Properties of the memory store (checked under SpecMem).

\* C6: a thread that has loaded memory.json in order to write it back holds
\* the lock from the load on, and the file is what the completed writes,
\* taken one after the other, make of it: none of them is lost.
C6_ReadModifyWriteUnderLock ==
  /\ \A p \in {Compressor} \cup Workers :
       mem_pc[p] \in {"locked", "loaded"} => mem_lock = p
  /\ mem_file = mem_expected

\* C6 with every operation completed: an entry whose add_entry completed is
\* not in memory.json, and nothing deleted it.
C6_Witness ==
  /\ \A p \in {Compressor} \cup Workers : mem_pc[p] = "idle"
  /\ \E m \in mem_expected.memories : m.id \notin Ids(mem_file)

----------------------------------------------------------------------------
\* Properties of the cache (checked under SpecCache).

\* C7: a get_cached_url of a url that was cached returns the cached content
\* exactly when it is made within the ttl of the latest cache_url of that
\* url; made later it returns None and leaves no file of the url on disk.
C7_GetHonoursTtl ==
  (last_get.key # 0 /\ last_get.set_value # Miss) =>
    LET within == last_get.at <= last_get.set_at + DefaultTtl
    IN /\ (last_get.result = last_get.set_value) <=> within
       /\ ~within => (last_get.result = Miss /\ ~last_get.on_disk)

\* C7 with a promotion: a get made after the ttl of the latest cache_url
\* returned the content and left its file on disk.
C7_Witness ==
  /\ last_get.key # 0 /\ last_get.set_value # Miss
  /\ last_get.at > last_get.set_at + DefaultTtl
  /\ last_get.result = last_get.set_value
  /\ last_get.on_disk

----------------------------------------------------------------------------
\* Properties of run_agent's middleware pipeline (checked under SpecMw).

InitOfMw == InitRunWith(DefaultConfig) /\ InitGate /\ InitMem /\ InitCache /\ InitLater

SpecMw == InitOfMw /\ [][NextMw]_vars

\* The middlewares whose on_run_end was invoked.
EndInvoked == {mw_ended[i].mw : i \in 1..Len(mw_ended)}

\* C13: when run_agent is over after a run that ended in success, in an
\* exception of the stream or in a cancellation, on_run_end was invoked on
\* every registered middleware, also when on_run_end of one of them raised,
\* and no exception of on_run_end reached the caller.
C13_OnRunEndAlwaysAll ==
  (mw_pc = "done" /\ mw_outcome \in Outcomes) =>
    /\ EndInvoked = Middlewares
    /\ mw_raised # "on_run_end"

\* C13 with on_run_end of the first middleware raising after a run that
\* ended in success.
C13_Witness ==
  /\ mw_pc = "done"
  /\ mw_outcome = "success"
  /\ Len(mw_ended) >= 1
  /\ mw_ended[1].raised

----------------------------------------------------------------------------
\* Properties of session reflection (checked under SpecReflect).

InitOfReflect == InitRunWith(DefaultConfig) /\ InitGate /\ InitMem /\ InitCache /\ InitLater

SpecReflect == InitOfReflect /\ [][NextReflect]_vars

\* The positions of the ADD and UPDATE decisions of the answer.
ToApply == {i \in 1..Len(rf_results.items) : rf_results.items[i].action \in {"ADD", "UPDATE"}}

\* The decision at position i was applied through the memory manager.
Applied(i) ==
  LET d == rf_results.items[i]
  IN \E k \in 1..Len(rf_calls) :
       /\ rf_calls[k].content = i
       /\ IF d.action = "ADD"
          THEN /\ rf_calls[k].op = "add_entry"
               /\ rf_calls[k].skip_dedup
               /\ d.category = "procedural" => rf_calls[k].learned_from = SessionId
          ELSE /\ rf_calls[k].op = "update_entry"
               /\ rf_calls[k].target_id = d.target_id

\* C14: once the reflection task started at `done` is over, every ADD and
\* UPDATE decision the reflection LLM returned was applied to the memory
\* store (ADD with skip_dedup, a procedural ADD with learned_from equal to
\* the session id) and one reflection line was appended to the daily log.
C14_ReflectionApplied ==
  (rf_pc \in {"finished", "failed"} /\ ToApply # {}) =>
    /\ \A i \in ToApply : Applied(i)
    /\ Cardinality({k \in 1..Len(rf_calls) : rf_calls[k].op = "append_daily_log"}) = 1

\* C14 with an answer holding a procedural ADD and an UPDATE, the task over.
C14_Witness ==
  /\ rf_pc \in {"finished", "failed"}
  /\ \E i, j \in ToApply :
       /\ rf_results.items[i].action = "ADD"
       /\ rf_results.items[i].category = "procedural"
       /\ rf_results.items[j].action = "UPDATE"

----------------------------------------------------------------------------
\* Properties of memory consolidation (checked under SpecConsol).

InitOfConsol == InitRunWith(DefaultConfig) /\ InitGate /\ InitMem /\ InitCache /\ InitLater

SpecConsol == InitOfConsol /\ [][NextConsol]_vars

\* An UPDATE decision whose target was in the store has been executed.
UpdateExecuted ==
  /\ cs_pc = "done"
  /\ cs_decision.decision = "UPDATE"
  /\ \E m \in cs_before : m.id = cs_decision.target_id

\* C15: after consolidation executed an UPDATE decision on the entry T, the
\* store holds as many entries as before, T has its id and the new content,
\* and the salience of T is the larger of its salience before and 0.5,
\* never lower than before.
C15_UpdateKeepsSalience ==
  UpdateExecuted =>
    /\ Cardinality(cs_store) = Cardinality(cs_before)
    /\ \E old \in cs_before, new \in cs_store :
         /\ old.id = cs_decision.target_id
         /\ new.id = old.id
         /\ new.content = IF cs_decision.merged_content # "none"
                          THEN cs_decision.merged_content ELSE cs_candidate.content
         /\ new.salience = IF old.salience > UpdateFloor THEN old.salience ELSE UpdateFloor
         /\ new.salience >= old.salience

\* C15 with an UPDATE executed on an entry of salience 0.9 for a candidate
\* of salience 0.3.
C15_Witness ==
  /\ UpdateExecuted
  /\ cs_candidate.salience = 3
  /\ \E old \in cs_before : old.id = cs_decision.target_id /\ old.salience = 9

\* The LLM call of decide_consolidation failed: it raised, or its reply is
\* no JSON object with one of the four decisions.
LlmFailed(reply) ==
  \/ reply.kind \in {"raised", "json_no_object", "text"}
  \/ reply.kind = "json" /\ reply.decision \notin {"ADD", "UPDATE", "DELETE", "NOOP"}

\* C23: a consolidation whose LLM call failed decides ADD and inserts the
\* candidate.
C23_LlmFailureDefaultsToAdd ==
  (cs_pc = "done" /\ LlmFailed(cs_reply)) =>
    /\ cs_decision.decision = "ADD"
    /\ \E m \in cs_store \ cs_before : m.content = cs_candidate.content

\* C23 with a consolidation over whose LLM replied text that is no JSON.
C23_Witness ==
  /\ cs_pc = "done"
  /\ cs_reply.kind = "text"
  /\ cs_reply.decision = "none"

----------------------------------------------------------------------------
\* Properties of memory.json and its backup (checked under SpecBak).

InitOfBak == InitRunWith(DefaultConfig) /\ InitGate /\ InitMem /\ InitCache /\ InitLater

SpecBak == InitOfBak /\ [][NextBak]_vars

\* C16: once memory.json has failed to parse, a load gives the fresh empty
\* store without raising, and memory.json.bak holds the content the file had
\* before it was corrupted, also after the store was written again.
C16_BackupKeepsContent ==
  bk_since # "none" =>
    /\ ~bk_loaded.raised
    /\ bk_file.state = "corrupt" => LoadMemoryJson(bk_file).memories = {}
    /\ bk_bak = bk_before

\* C16 with a store that held entries, was corrupted and was written again.
C16_Witness ==
  /\ bk_since = "written"
  /\ bk_before.memories # {}
  /\ bk_file.state = "ok"

----------------------------------------------------------------------------
\* Properties of the vector index (checked under SpecIndex).

InitOfIndex == InitRunWith(DefaultConfig) /\ InitGate /\ InitMem /\ InitCache /\ InitLater

SpecIndex == InitOfIndex /\ [][NextIndex]_vars

\* C17: a search_memories call made after a mutation of the store returned
\* does not answer from a vector index built before that mutation was
\* written: the index it answers from was built from a memory.json that
\* holds every mutation that had returned when the call was made.
C17_NoStaleIndex ==
  \A s \in Searchers :
    s_answer[s].kind = "vector" => s_answer[s].version >= s_after[s]

\* C17 with an index built, a mutation returned after it, and a search made
\* after the mutation that answered from the index.
C17_Witness ==
  \E s \in Searchers, t \in Searchers :
    /\ s_answer[t].kind = "vector" /\ s_answer[t].version = 0
    /\ s_answer[s].kind = "vector" /\ s_after[s] >= 1

----------------------------------------------------------------------------
\* Properties of the LLM reply cache (checked under SpecLlm).

InitOfLlm == InitRunWith(DefaultConfig) /\ InitGate /\ InitMem /\ InitCache /\ InitLater

SpecLlm == InitOfLlm /\ [][NextLlm]_vars

\* C18: key parameters that differ in memory_fingerprint only give
\* different cache keys, so a hit never replays a reply that was cached
\* under another mtime of memory.json.
C18_FingerprintInKey ==
  /\ \A m \in Messages : \A f, g \in 0..MaxMemoryChanges :
       f # g => ComputeCacheKey(KeyParams(m, f)) # ComputeCacheKey(KeyParams(m, g))
  /\ (lc_pc # "idle" /\ lc_call.hit) =>
       \A i \in 1..Len(lc_store[lc_call.key]) : lc_store[lc_call.key][i].basis = lc_fp

\* C18 with a reply cached, memory.json changed, and the same message asked
\* again.
C18_Witness ==
  /\ lc_pc = "over"
  /\ lc_calls >= 2
  /\ lc_fp = 1
  /\ lc_store[lc_call.key] # << >>
  /\ lc_store[lc_call.key][1].basis = 0

\* The items a hit on the list `cached` is to yield.
Replayed(cached) ==
  [i \in 1..Len(cached) |-> EventItem([cached[i] EXCEPT !.cached = TRUE])]

\* C19: every stored list is the whole event sequence of a run whose
\* generator completed, and a hit, once over, has yielded exactly the
\* stored events in their order, each tagged cached=true.
C19_ReplayIsStoredSequence ==
  /\ \A k \in CacheKeys : lc_store[k] # << >> => lc_store[k] \in lc_completed
  /\ (lc_pc = "over" /\ lc_call.hit) => lc_yielded = Replayed(lc_store[lc_call.key])

\* C19 with a hit in non-streaming mode over.
C19_Witness ==
  /\ lc_pc = "over"
  /\ lc_call.hit
  /\ ~lc_call.stream
  /\ Len(lc_store[lc_call.key]) = 2

----------------------------------------------------------------------------
\* Properties of the system prompt cache (checked under SpecPrompt).

InitOfPrompt == InitRunWith(DefaultConfig) /\ InitGate /\ InitMem /\ InitCache /\ InitLater

SpecPrompt == InitOfPrompt /\ [][NextPrompt]_vars

\* C20: a build of the system prompt that follows a change of the mtime of
\* a file the prompt is built from misses the prompt cache and returns the
\* freshly assembled string.
C20_ChangedFileMissesCache ==
  pr_last.changed # {} => ~pr_last.hit /\ pr_last.prompt = pr_last.fresh

\* C20 with a build that follows a write of the daily log, a prompt being
\* cached.
C20_Witness ==
  /\ pr_builds >= 2
  /\ pr_last.changed = {"daily_log"}
  /\ pr_last.hit

----------------------------------------------------------------------------
\* Properties of agent_node (checked under SpecAgent).

InitOfAgent == InitRunWith(DefaultConfig) /\ InitGate /\ InitMem /\ InitCache /\ InitLater

SpecAgent == InitOfAgent /\ [][NextAgent]_vars

\* C21: an LLM call of agent_node that fails, by timeout or by an error of
\* the provider, ends the node normally with an `[ERROR] LLM` message as
\* its last new message and outcome respond.
C21_LlmFailureBecomesMessage ==
  an_failed # "none" =>
    /\ an_pc = "returned"
    /\ an_outcome = "respond"
    /\ an_new # << >>
    /\ an_new[Len(an_new)] = "[ERROR] LLM timeout"

\* C21 with an LLM call that failed with a provider error after a tool
\* call.
C21_Witness ==
  /\ an_failed = "error"
  /\ an_iterations = 2
  /\ an_pc # "llm"

----------------------------------------------------------------------------
\* Properties of the daily-log archiver (checked under SpecArch).

InitOfArch == InitRunWith(DefaultConfig) /\ InitGate /\ InitMem /\ InitCache /\ InitLater

SpecArch == InitOfArch /\ [][NextArch]_vars

\* C22: a deleted daily log was past delete_days and marked archived, and
\* no part of the archiving that marked it (the summary, the promotion of
\* its entries) had failed.
C22_DeleteOnlyArchived ==
  \A f \in Logs :
    ~ar_log[f].exists =>
      /\ Ages[ar_log[f].age] = "past_delete_days"
      /\ ar_log[f].archived
      /\ ar_log[f].failed = "none"

\* C22 with a file deleted by the pass in which its summary call raised.
C22_Witness ==
  \E f \in Logs : ~ar_log[f].exists /\ ar_log[f].failed = "summary"

----------------------------------------------------------------------------
\* Properties of the rate limit (checked under SpecRate).

InitOfRate == InitRunWith(DefaultConfig) /\ InitGate /\ InitMem /\ InitCache /\ InitLater

SpecRate == InitOfRate /\ [][NextRate]_vars

\* The checks of `key` that were allowed at a time in (from, from + window].
AllowedIn(key, from, window) ==
  { i \in 1..Len(rl_log) :
      /\ rl_log[i].key = key
      /\ rl_log[i].allowed
      /\ from < rl_log[i].time
      /\ rl_log[i].time <= from + window }

\* C24: for each limited key, no window of window_seconds holds more than
\* max_calls allowed checks; a check the limiter refuses is denied with the
\* seconds to wait, and its tool is not executed.
C24_SlidingWindowLimit ==
  /\ \A key \in DOMAIN Limits : \A from \in (0 - WindowSeconds)..MaxRateClock :
       Cardinality(AllowedIn(key, from, Limits[key][2])) <= Limits[key][1]
  /\ \A i \in 1..Len(rl_log) :
       ~rl_log[i].rl_ok =>
         /\ ~rl_log[i].allowed
         /\ ~rl_log[i].executed
         /\ rl_log[i].outcome = "rate_limited"
         /\ rl_log[i].retry \in 1..Limits[rl_log[i].key][2]

\* C24 with max_calls allowed checks of terminal, a refused one in the same
\* window, and an allowed one after the window has passed.
C24_Witness ==
  /\ Len(rl_log) = 4
  /\ \A i \in 1..4 : rl_log[i].key = "terminal"
  /\ rl_log[1].allowed /\ rl_log[2].allowed
  /\ ~rl_log[3].rl_ok
  /\ rl_log[3].time < rl_log[1].time + WindowSeconds
  /\ rl_log[4].allowed

----------------------------------------------------------------------------
\* Properties of the permission decision (checked under SpecPerm).

InitOfPerm == InitRunWith(DefaultConfig) /\ InitGate /\ InitMem /\ InitCache /\ InitLater

SpecPerm == InitOfPerm /\ [][NextPerm]_vars

----------------------------------------------------------------------------
\* Properties of the duplicate detection (checked under SpecDedup).

InitOfDedup == InitRunWith(DefaultConfig) /\ InitGate /\ InitMem /\ InitCache /\ InitLater

SpecDedup == InitOfDedup /\ [][NextDedup]_vars

\* The entries of the list `memories` that hold `content`.
WithContent(memories, content) ==
  { i \in 1..Len(memories) : memories[i].content = content }

\* Seven tenths of the words of the two contents together are in both.
WordsOverlap(a, b) ==
  LET both == WordSet(a) \cap WordSet(b)
      all == WordSet(a) \cup WordSet(b)
  IN all # {} /\ 10 * Cardinality(both) >= 7 * Cardinality(all)

\* The list holds an entry equal or similar to `content`.
HasDuplicate(memories, content) ==
  \E i \in 1..Len(memories) :
    memories[i].content = content \/ WordsOverlap(memories[i].content, content)

\* Two calls of the log with the same content, both with skip_dedup unset.
SamePair(i, j) ==
  /\ i < j
  /\ dd_log[i].content = dd_log[j].content
  /\ ~dd_log[i].skip_dedup /\ ~dd_log[j].skip_dedup

----------------------------------------------------------------------------
\* Properties of the executor's events (checked under SpecExec).

InitOfExec == InitRunWith(DefaultConfig) /\ InitGate /\ InitMem /\ InitCache /\ InitLater

SpecExec == InitOfExec /\ [][NextExec]_vars

LiveTypes == {"llm_start", "token", "llm_end", "tool_start", "tool_end"}

\* The positions of the stream that hold plan_updated(status) of step s.
UpdatedAt(s, statuses) ==
  { i \in 1..Len(ex_out) :
      /\ ex_out[i].type = "plan_updated"
      /\ ex_out[i].step = s
      /\ ex_out[i].status \in statuses }

\* C28: for every executed step the stream holds plan_updated(running)
\* before every tool and LLM event of the step, and plan_updated(completed
\* or failed) after all of them.
C28_StepEventsBracketed ==
  \A s \in 1..ex_index :
    /\ UpdatedAt(s, {"running"}) # {}
    /\ UpdatedAt(s, {"completed", "failed"}) # {}
    /\ \A k \in 1..Len(ex_out) :
         (ex_out[k].step = s /\ ex_out[k].type \in LiveTypes) =>
           /\ \E i \in UpdatedAt(s, {"running"}) : i < k
           /\ \E j \in UpdatedAt(s, {"completed", "failed"}) : k < j

\* C28 with two steps executed, the first with a tool call, and the graph
\* ended.
C28_Witness ==
  /\ ex_pc = "end"
  /\ \E k \in 1..Len(ex_out) : ex_out[k].step = 1 /\ ex_out[k].type = "tool_end"
  /\ UpdatedAt(2, {"completed"}) # {}

----------------------------------------------------------------------------
\* The executor loop.

InitOfLoop == InitRunWith(DefaultConfig) /\ InitGate /\ InitMem /\ InitCache /\ InitLater

SpecLoop == InitOfLoop /\ [][NextLoop]_vars

\* C29: in every graph configuration the executor-node invocations for a
\* plan never exceed executor.max_steps and never exceed the plan's current
\* number of steps.
C29_ExecutorInvocationsBounded ==
  HasPlan(lp_plan) =>
    /\ lp_invocations <= lp_cfg.max_steps
    /\ lp_invocations <= Len(PlanOf(lp_plan).steps)

\* C29 with the replanner enabled and no revision: the loop is left after
\* more executor invocations than executor.max_steps.
C29_Witness ==
  /\ lp_node = "left" /\ lp_cfg.replanner /\ lp_revisions = 0
  /\ lp_invocations > lp_cfg.max_steps

\* C30: whenever plan_data is not null, current_step_index is at most the
\* number of steps of plan_data, whatever the executor's results and the
\* replanner's continue, revise and finish decisions.
C30_IndexWithinPlan ==
  HasPlan(lp_plan) => lp_index <= Len(PlanOf(lp_plan).steps)

\* C30 after two executed steps and a revision that put one new step behind
\* them, the executor having run that step as well.
C30_Witness ==
  /\ HasPlan(lp_plan) /\ lp_revisions > 0 /\ lp_invocations = 3
  /\ lp_index = Len(PlanOf(lp_plan).steps)
  /\ lp_index = 3

----------------------------------------------------------------------------
\* fetch_url and the url cache.

InitOfFetch == InitRunWith(DefaultConfig) /\ InitGate /\ InitMem /\ InitCache /\ InitLater

SpecFetch == InitOfFetch /\ [][NextFetch]_vars

\* The second call of a url follows its first call within the ttl.
FirstTwoCalls(i, j) ==
  /\ i < j
  /\ fu_log[i].url = fu_log[j].url
  /\ \A k \in 1..(j - 1) : k # i => fu_log[k].url # fu_log[i].url
  /\ fu_log[j].at - fu_log[i].at <= DefaultTtl

\* C31: of two identical fetch_url calls within the ttl, the first gives a
\* tool_end with cached = false and stores the body, the second gives a
\* tool_end with cached = true whose output starts with [CACHE_HIT].
C31_SecondCallIsCacheHit ==
  \A i, j \in 1..Len(fu_log) :
    FirstTwoCalls(i, j) =>
      /\ fu_log[i].type = "tool_end" /\ ~fu_log[i].cached /\ fu_log[i].stored
      /\ fu_log[j].type = "tool_end" /\ fu_log[j].cached
      /\ StartsWithCacheHit(fu_log[j].output)

\* C31 at the default security level: two calls of one url within the ttl
\* are both over.
C31_Witness ==
  /\ fu_level = "standard"
  /\ \E i, j \in 1..Len(fu_log) : FirstTwoCalls(i, j)

----------------------------------------------------------------------------
\* The disk tier under I/O faults.

InitOfDisk == InitRunWith(DefaultConfig) /\ InitGate /\ InitMem /\ InitCache /\ InitLater

SpecDisk == InitOfDisk /\ [][NextDisk]_vars

\* C32: a disk I/O error during a cache get or set is a miss or a no-op: the
\* cache call returns normally and the enclosing run is not failed by it.
C32_DiskErrorsNeverFatal ==
  \A i \in 1..Len(dk_log) :
    /\ dk_log[i].result # "raised"
    /\ dk_log[i].result # "failed"

\* C32 with a get that met an unreadable file, a set whose write failed and
\* a run over the cache all over.
C32_Witness ==
  /\ \E i \in 1..Len(dk_log) : dk_log[i].op = "get" /\ dk_log[i].result = "miss"
  /\ \E i \in 1..Len(dk_log) : dk_log[i].op = "set" /\ dk_log[i].result = "noop"
  /\ \E i \in 1..Len(dk_log) : dk_log[i].op = "run"

----------------------------------------------------------------------------
\* The gate's SSE callback.

InitOfSse == InitRunWith(DefaultConfig) /\ InitGate /\ InitMem /\ InitCache /\ InitLater

SpecSse == InitOfSse /\ [][NextSse]_vars

\* C33: with runs streaming concurrently, the approval_request of a tool
\* call of a run is put on that run's own stream: never on another run's,
\* and never left unsent.
C33_ApprovalOnOwnStream ==
  \A i \in 1..Len(sc_requests) : sc_requests[i].to = sc_requests[i].run

\* C33 with two runs streaming when a request was raised, and a request of
\* each run raised.
C33_Witness ==
  /\ \E i \in 1..Len(sc_requests) : sc_requests[i].active = SseRuns
  /\ \A run \in SseRuns : \E i \in 1..Len(sc_requests) : sc_requests[i].run = run

----------------------------------------------------------------------------
\* Plan approval behind the LLM reply cache.

InitOfReplay == InitRunWith(DefaultConfig) /\ InitGate /\ InitMem /\ InitCache /\ InitLater

SpecReplay == InitOfReplay /\ [][NextReplay]_vars

\* C36: whenever a plan_approval_request for a plan_id has been emitted to
\* the consumer, also in a run replayed from the LLM reply cache, a queue is
\* registered under the plan_id and a run waits on it, and the decision
\* posted for it is delivered to that run.
C36_RequestHasWaitingRun ==
  /\ (RequestShown /\ ~rp_answered) =>
       LET pid == rp_out[Len(rp_out)].plan
       IN rp_ctx[pid] /\ rp_waiting = pid
  /\ \A i \in 1..Len(rp_posts) :
       rp_posts[i].first => rp_posts[i].result = "delivered"

\* C36 in a replayed run: the cached plan_approval_request was yielded and
\* a decision was posted for it.
C36_Witness ==
  /\ rp_pc \in {"replaying", "over"}
  /\ \E i \in 1..Len(rp_out) :
       rp_out[i].type = "plan_approval_request" /\ rp_out[i].cached
  /\ \E i \in 1..Len(rp_posts) : rp_posts[i].first

----------------------------------------------------------------------------
\* The tool calls of agent_node.

InitOfCalls == InitRunWith(DefaultConfig) /\ InitGate /\ InitMem /\ InitCache /\ InitLater

SpecCalls == InitOfCalls /\ [][NextCalls]_vars

\* The tool call `call` is answered in the messages.
Answered(call) ==
  \E k \in 1..Len(tc_msgs) :
    tc_msgs[k].role = "tool" /\ tc_msgs[k].tool_call_id = call.id

\* C37: in the messages agent_node returns to the graph state, every tool
\* call of an assistant message is answered by a tool message with its
\* tool_call_id, also when plan_create comes with other tools.
C37_EveryToolCallAnswered ==
  tc_pc = "returned" =>
    \A k \in 1..Len(tc_msgs) :
      \A c \in 1..Len(tc_msgs[k].tool_calls) : Answered(tc_msgs[k].tool_calls[c])

\* C37 with a returned node whose reply asked for plan_create together
\* with another tool.
C37_Witness ==
  /\ tc_pc = "returned" /\ tc_outcome = "plan_create"
  /\ \E k \in 1..Len(tc_msgs) :
       /\ Len(tc_msgs[k].tool_calls) = 2
       /\ \E c \in 1..2 : tc_msgs[k].tool_calls[c].name = "other"

----------------------------------------------------------------------------
\* python_repl across sessions.

InitOfRepl == InitRunWith(DefaultConfig) /\ InitGate /\ InitMem /\ InitCache /\ InitLater

SpecRepl == InitOfRepl /\ [][NextRepl]_vars

\* C38: when python_repl executions of different sessions overlap, also
\* with one that timed out and whose thread still runs, each runs with its
\* own session's tmp directory as working directory and its output goes to
\* its own capture only.
C38_OwnDirAndOutput ==
  \A e \in py_log :
    /\ e.cwd = TmpDir(e.session)
    /\ e.stdout = Buffer(e.session)

\* C38 with the code of both sessions having run while the other session's
\* execution was under way.
C38_Witness ==
  \A s \in ReplSessions : \E e \in py_log : e.session = s /\ e.overlap

----------------------------------------------------------------------------
\* Compression and the entries it started from.

InitOfStream == InitRunWith(DefaultConfig) /\ InitGate /\ InitMem /\ InitCache /\ InitLater

SpecStream == InitOfStream /\ [][NextStream]_vars

\* The new merged entries of a completed compression that list the id.
MergedInto(id) ==
  {n \in cmp_result.after \ cmp_result.before : id \in n.merged_from}

----------------------------------------------------------------------------
\* Consolidation and the candidate's content (checked under SpecConsol).

\* The store holds the candidate's content, or in the target of an UPDATE
\* the merged content made of it.
CandidateStored ==
  \E m \in cs_store :
    \/ m.content = cs_candidate.content
    \/ /\ cs_decision.decision = "UPDATE"
       /\ m.id = cs_decision.target_id
       /\ m.content = cs_decision.merged_content

\* C40: when consolidation ran for a candidate and the decision was not
\* NOOP, also for UPDATE or DELETE with a missing or unknown target_id, the
\* candidate's content is in the store afterwards.
C40_CandidateStoredUnlessNoop ==
  (cs_pc = "done" /\ cs_decision.decision # "NOOP") => CandidateStored

\* C40 with a first consolidation that executed UPDATE or DELETE without a
\* target_id.
C40_Witness ==
  /\ cs_pc = "done"
  /\ cs_calls = 1
  /\ cs_decision.decision \in {"UPDATE", "DELETE"}
  /\ cs_decision.target_id = 0

====
